---- MODULE Spec2Model ----
(***************************************************************************)
(* Model of the Quasar consensus core of luxfi/consensus                    *)
(* (src/pkg/rust/src/lib.rs): the FPC selector, the Wave voter, the Quasar  *)
(* certifier and the QuasarEngine facade.                                   *)
(*                                                                          *)
(* Identifiers (ID, NodeID) are 32-byte values compared byte-wise; they are *)
(* modelled as naturals, 0 being ID::zero() (genesis).  Payloads,           *)
(* signatures and timestamps are opaque to every branch of the modelled     *)
(* code and are left out of Block, Vote and Certificate.                    *)
(* Ratios (alpha, theta_min, theta_max) are kept in hundredths.             *)
(***************************************************************************)
EXTENDS Integers, Sequences, FiniteSets, TLC

(***************************************************************************)
(* 64-bit words as four 16-bit limbs, least significant limb first.         *)
(***************************************************************************)
Limb == 65536

RECURSIVE Pow2(_)
Pow2(n) == IF n = 0 THEN 1 ELSE 2 * Pow2(n - 1)

RECURSIVE XorBits(_, _, _)
XorBits(a, b, n) ==
    IF n = 0 THEN 0
    ELSE (((a % 2) + (b % 2)) % 2) + 2 * XorBits(a \div 2, b \div 2, n - 1)

\* u64 ^ u64
Xor64(x, y) ==
    << XorBits(x[1], y[1], 16), XorBits(x[2], y[2], 16),
       XorBits(x[3], y[3], 16), XorBits(x[4], y[4], 16) >>

\* u64::wrapping_add, limb by limb from limb i with carry c
RECURSIVE AddFrom(_, _, _, _)
AddFrom(x, y, i, c) ==
    IF i > 4 THEN << >>
    ELSE << (x[i] + y[i] + c) % Limb >>
         \o AddFrom(x, y, i + 1, (x[i] + y[i] + c) \div Limb)

WrappingAdd(x, y) == AddFrom(x, y, 1, 0)

\* the limb that rotation by q whole limbs moves to position i
RotLimb(x, q, i) == x[((i - 1 - q + 4) % 4) + 1]

\* limb i of x rotated left by 16 * q + s bits
RotPart(x, q, s, i) ==
    IF s = 0 THEN RotLimb(x, q, i)
    ELSE ((RotLimb(x, q, i) % Pow2(16 - s)) * Pow2(s))
         + (RotLimb(x, q, ((i + 2) % 4) + 1) \div Pow2(16 - s))

\* u64::rotate_left(r), r in {13, 16, 17, 21, 32}
RotateLeft(x, r) ==
    << RotPart(x, r \div 16, r % 16, 1), RotPart(x, r \div 16, r % 16, 2),
       RotPart(x, r \div 16, r % 16, 3), RotPart(x, r \div 16, r % 16, 4) >>

\* the three statement forms of the mixing round, on state words 1..4:
\* state[i] = state[i].wrapping_add(state[j])
AddTo(st, i, j) == [st EXCEPT ![i] = WrappingAdd(st[i], st[j])]

\* state[i] = state[i].rotate_left(r)
RotTo(st, i, r) == [st EXCEPT ![i] = RotateLeft(st[i], r)]

\* state[i] ^= state[j]
XorTo(st, i, j) == [st EXCEPT ![i] = Xor64(st[i], st[j])]

\* state[i] ^= m
XorWord(st, i, m) == [st EXCEPT ![i] = Xor64(st[i], m)]

\* the fourteen statements of the mixing round of simple_hash, in order
\* (the innermost call is the first statement)
MixRound(st) ==
    RotTo(XorTo(RotTo(AddTo(
    XorTo(RotTo(AddTo(
    XorTo(RotTo(AddTo(
    RotTo(XorTo(RotTo(AddTo(st, 1, 2), 2, 13), 2, 1), 1, 32),
    3, 4), 4, 16), 4, 3),
    1, 4), 4, 21), 4, 1),
    3, 2), 2, 17), 2, 3), 3, 32)

\* n mixing rounds; the test on Len evaluates each round before the next
RECURSIVE MixRounds(_, _)
RECURSIVE MixNext(_, _)
MixRounds(st, n) == IF n = 0 THEN st ELSE MixNext(MixRound(st), n)

MixNext(r, n) == IF Len(r) = 4 THEN MixRounds(r, n - 1) ELSE r

\* the four initial state words of simple_hash
HashInit ==
    << << 25973, 28787, 28005, 29551 >>,    \* 0x736f6d6570736575
       << 28525, 28260, 29281, 25711 >>,    \* 0x646f72616e646f6d
       << 29281, 28261, 26469, 27769 >>,    \* 0x6c7967656e657261
       << 25971, 31092, 25698, 29797 >> >>  \* 0x7465646279746573

\* absorb one 8-byte chunk, given as the little-endian word m
Absorb(st, m) == XorWord(MixRounds(XorWord(st, 4, m), 2), 1, m)

RECURSIVE AbsorbAll(_, _, _)
RECURSIVE AbsorbNext(_, _, _)
AbsorbAll(st, words, i) ==
    IF i > Len(words) THEN st ELSE AbsorbNext(Absorb(st, words[i]), words, i)

AbsorbNext(r, words, i) ==
    IF Len(r) = 4 THEN AbsorbAll(r, words, i + 1) ELSE r

\* simple_hash over the chunk words of the input; returns the four state words
simple_hash(words) ==
    MixRounds(XorWord(AbsorbAll(HashInit, words, 1), 3, << 255, 0, 0, 0 >>), 4)

\* A 32-byte seed as four little-endian words of 8 bytes each.
SeedLimb(bytes, c, l) ==
    bytes[8 * (c - 1) + 2 * l - 1] + (256 * bytes[8 * (c - 1) + 2 * l])

SeedWord(bytes, c) ==
    << SeedLimb(bytes, c, 1), SeedLimb(bytes, c, 2),
       SeedLimb(bytes, c, 3), SeedLimb(bytes, c, 4) >>

SeedWords(bytes) ==
    << SeedWord(bytes, 1), SeedWord(bytes, 2),
       SeedWord(bytes, 3), SeedWord(bytes, 4) >>

\* phase.to_be_bytes() read back as a little-endian chunk: the byte-swapped
\* phase.  Phases stay below 2^16 here, so only the two top bytes are set.
PhaseWord(phase) == << 0, 0, 0, ((phase % 256) * 256) + (phase \div 256) >>

\* b"lux-consensus-fpc-default-seed!!"
SeedDefault ==
    << 108, 117, 120, 45, 99, 111, 110, 115, 101, 110, 115, 117, 115, 45, 102,
       112, 99, 45, 100, 101, 102, 97, 117, 108, 116, 45, 115, 101, 101, 100,
       33, 33 >>

\* b"lux-testnet-fpc-seed-00000000000"
SeedTestnet ==
    << 108, 117, 120, 45, 116, 101, 115, 116, 110, 101, 116, 45, 102, 112, 99,
       45, 115, 101, 101, 100, 45, 48, 48, 48, 48, 48, 48, 48, 48, 48, 48, 48 >>

\* b"lux-mainnet-fpc-secure-seed-2025"
SeedMainnet ==
    << 108, 117, 120, 45, 109, 97, 105, 110, 110, 101, 116, 45, 102, 112, 99,
       45, 115, 101, 99, 117, 114, 101, 45, 115, 101, 101, 100, 45, 50, 48,
       50, 53 >>

CeilDiv(a, b) == (a + b - 1) \div b

\* FpcSelector::new: out-of-range arguments fall back to 0.5 / 0.8
FpcSelectorNew(theta_min, theta_max, seed) ==
    LET tmin == IF theta_min > 0 /\ theta_min < 100 THEN theta_min ELSE 50
        tmax == IF theta_max > tmin /\ theta_max <= 100 THEN theta_max ELSE 80
    IN  [theta_min |-> tmin, theta_max |-> tmax, seed |-> seed]

\* The 16 most significant bits of hash_u64 = u64::from_be_bytes(hash[0..8]):
\* hash[0], hash[1] are the two low bytes of state word 0.
ByteSwap16(limb) == ((limb % 256) * 256) + (limb \div 256)

HashTop16(fpc, phase) ==
    ByteSwap16(simple_hash(SeedWords(fpc.seed) \o << PhaseWord(phase) >>)[1][1])

\* FpcSelector::select_threshold = ceil(theta(phase) * k), with
\* theta = theta_min + hash_u64 / u64::MAX * (theta_max - theta_min).
\* hash_u64 / u64::MAX is taken from its 16 leading bits.
select_threshold(fpc, phase, k) ==
    CeilDiv(k * (fpc.theta_min * Limb
                 + HashTop16(fpc, phase) * (fpc.theta_max - fpc.theta_min)),
            100 * Limb)


(***************************************************************************)
(* Configurations.                                                          *)
(***************************************************************************)
\* QuasarConfig::alpha_count = ceil(alpha * k)
alpha_count(cfg) == CeilDiv(cfg.alpha * cfg.k, 100)

\* QuasarConfig::testnet (the fields Wave, FPC and Quasar read)
ConfigTestnet ==
    [k |-> 5, alpha |-> 60, beta |-> 5, enable_fpc |-> FALSE,
     theta_min |-> 50, theta_max |-> 70, fpc_seed |-> SeedTestnet]

\* QuasarConfig::mainnet
ConfigMainnet ==
    [k |-> 21, alpha |-> 69, beta |-> 20, enable_fpc |-> TRUE,
     theta_min |-> 50, theta_max |-> 80, fpc_seed |-> SeedMainnet]

\* test_consensus_flow (tests/basic_test.rs): testnet with k = 3,
\* alpha = 0.67, beta = 1
ConfigFlow ==
    [ConfigTestnet EXCEPT !.k = 3, !.alpha = 67, !.beta = 1]

\* small configurations: two confirmation rounds with FPC off, and the
\* default FPC range and seed with one round
ConfigTwoRounds ==
    [ConfigTestnet EXCEPT !.k = 2, !.beta = 2]

\* a decision at the second vote, so that a third voter votes after it
ConfigPair ==
    [ConfigTestnet EXCEPT !.k = 2, !.beta = 1]

ConfigFpc ==
    [k |-> 3, alpha |-> 69, beta |-> 1, enable_fpc |-> TRUE,
     theta_min |-> 50, theta_max |-> 80, fpc_seed |-> SeedDefault]

SmallConfigs == { ConfigFlow, ConfigPair, ConfigTwoRounds, ConfigFpc }

\* a sample of one vote and two rounds
ConfigSingle ==
    [ConfigTestnet EXCEPT !.k = 1, !.beta = 2]

\* a sample of ten and a threshold of seven votes, three rounds
ConfigUncertain ==
    [ConfigTestnet EXCEPT !.k = 10, !.alpha = 70, !.beta = 3]

(***************************************************************************)
(* Bounds of the model.                                                     *)
(***************************************************************************)
MaxVoters == 3
MaxHeight == 1
MaxBatch == 2
MaxValidators == 2
MaxPhase == 24
MaxPeers == 3
MaxCalls == 4
MaxBeta == 2

\* ID::zero(), the id of the genesis block
GenesisId == 0
\* the block id of the examples and tests, ID::from([1u8; 32])
BlockId == 1
\* the id that test_error_handling never adds, make_id(255)
UnknownId == 255

\* the voters of the testnet test (for i in 0..5) and of the crate example
\* (for i in 0..20)
TestnetVoters == 5
MainnetVoters == 20

\* the sample size of test_fpc_threshold
TestK == 20

Voters == 1..MaxVoters
\* ids of the blocks that are added, and ids that votes name
Ids == { GenesisId, BlockId }
VoteIds == { GenesisId, BlockId, UnknownId }
Heights == 1..MaxHeight
VoteTypes == { "Preference", "Commit", "Cancel" }

\* thresholds of phases 1..n of a selector, in phase order
RECURSIVE ThresholdSeq(_, _, _)
ThresholdSeq(fpc, k, n) ==
    IF n = 0 THEN << >>
    ELSE Append(ThresholdSeq(fpc, k, n - 1), select_threshold(fpc, n, k))

\* Wave::new: Option<FpcSelector> as a sequence, << >> for None and
\* << selector >> for Some.  The selector carries select_threshold(phase, k)
\* for the phases 1..MaxPhase, computed here once, so that a consensus check
\* reads it instead of hashing.
WaveFpc(cfg) ==
    IF cfg.enable_fpc
    THEN LET f == FpcSelectorNew(cfg.theta_min, cfg.theta_max, cfg.fpc_seed)
         IN  << [theta_min |-> f.theta_min, theta_max |-> f.theta_max,
                 seed |-> f.seed,
                 thresholds |-> ThresholdSeq(f, cfg.k, MaxPhase)] >>
    ELSE << >>

\* fpc.select_threshold(phase, k) on the selector of a Wave
SelectThresholdOf(fpc, phase, k) == fpc.thresholds[phase]

(***************************************************************************)
(* Maps (HashMap) as functions with a growing domain.                       *)
(***************************************************************************)
EmptyMap == [x \in {} |-> 0]

Insert(map, key, val) ==
    [x \in (DOMAIN map) \cup {key} |-> IF x = key THEN val ELSE map[x]]

(***************************************************************************)
(* Types.                                                                   *)
(***************************************************************************)
\* Vote::prefer
prefer(vote) == vote.vote_type \in { "Preference", "Commit" }

NewVote(b, t, v) == [block_id |-> b, vote_type |-> t, voter |-> v]

NewBlock(b, h) == [id |-> b, height |-> h]

\* Block::genesis
GenesisBlock == [id |-> GenesisId, height |-> 0]

\* WaveState::default
WaveStateDefault ==
    [votes |-> << >>, yes_count |-> 0, no_count |-> 0, preference |-> FALSE,
     confidence |-> 0, decided |-> FALSE, decision |-> "Undecided"]

\* the threads of test_thread_safety that vote
WorkerThreads == 2

Threads == 1..WorkerThreads

\* a thread that is in no call
Idle == [pc |-> "idle", op |-> << >>, stages |-> << >>, res |-> "None"]

\* QuasarEngine::new
EngNew ==
    [started |-> FALSE, blocks |-> EmptyMap, status |-> EmptyMap,
     height |-> 0, phase |-> 0, states |-> EmptyMap,
     validators |-> EmptyMap, finalized |-> EmptyMap]

\* what a reader holding the guard reads about the block of the tests
Snapshot(e) ==
    [present |-> BlockId \in DOMAIN e.blocks,
     block_height |-> IF BlockId \in DOMAIN e.blocks
                      THEN e.blocks[BlockId].height ELSE 0,
     status |-> IF BlockId \in DOMAIN e.status THEN e.status[BlockId]
                ELSE "Unknown",
     height |-> e.height]

(***************************************************************************)
(* State.                                                                   *)
(***************************************************************************)
VARIABLES
    config,      \* QuasarEngine.config (immutable after construction)
    fpc,         \* Wave.fpc (immutable after construction)
    started,     \* QuasarEngine.started
    blocks,      \* QuasarEngine.blocks: id -> Block
    status,      \* QuasarEngine.status: id -> Status
    height,      \* QuasarEngine.height
    phase,       \* Wave.phase
    states,      \* Wave.states: id -> WaveState
    validators,  \* QuasarConsensus.validators: id -> weight
    finalized,   \* QuasarConsensus.finalized: id -> Certificate
    ret,         \* Result returned by the last operation ("Count": a usize)
    success_count, \* the usize returned by the last record_votes_batch
    supplied,    \* the votes handed to the last direct create_certificate
    lock,        \* the Mutex around the engine: 0 free, else the holder
    threads,     \* per thread: its position, its call, the writes left
    serial,      \* the engine of the calls applied whole, in locking order
    seen,        \* what the last reader read under its guard
    twin,        \* a second engine instance: its config, selector, state
    selector,    \* a FpcSelector built on its own, and what it last returned
    luminance,   \* a Luminance built on its own, and its last illuminate
    sampler,     \* a PhotonSampler built on its own, and its last sample
    focus        \* a Focus built on its own, and its last update

\* the state of the components that stand beside the engine
components == << twin, selector, luminance, sampler, focus >>

vars == << config, fpc, started, blocks, status, height, phase, states,
           validators, finalized, ret, success_count, supplied,
           lock, threads, serial, seen, components >>

\* the engine as one value, for the operations that are composed
Eng ==
    [started |-> started, blocks |-> blocks, status |-> status,
     height |-> height, phase |-> phase, states |-> states,
     validators |-> validators, finalized |-> finalized]

SetEng(e) ==
    /\ started' = e.started
    /\ blocks' = e.blocks
    /\ status' = e.status
    /\ height' = e.height
    /\ phase' = e.phase
    /\ states' = e.states
    /\ validators' = e.validators
    /\ finalized' = e.finalized

\* variant of Wave::get_threshold that advances the phase by two
get_threshold_SkipsPhase(cfg, w) ==
    IF Len(w.fpc) > 0
    THEN [phase |-> w.phase + 2,
          threshold |-> SelectThresholdOf(w.fpc[1], w.phase + 2, cfg.k)]
    ELSE [phase |-> w.phase, threshold |-> alpha_count(cfg)]

(***************************************************************************)
(* Wave.  A Wave value w is [fpc, phase, states].                           *)
(***************************************************************************)
\* Wave::get_threshold: the phase is advanced only when FPC is enabled
get_threshold(cfg, w) ==
    IF Len(w.fpc) > 0
    THEN [phase |-> w.phase + 1,
          threshold |-> SelectThresholdOf(w.fpc[1], w.phase + 1, cfg.k)]
    ELSE [phase |-> w.phase, threshold |-> alpha_count(cfg)]

\* variant of the quorum branch that counts a confirming round twice
QuorumStep_DoubleCount(state, threshold) ==
    IF state.yes_count >= threshold
    THEN IF state.preference
         THEN [state EXCEPT !.confidence = @ + 2]
         ELSE [state EXCEPT !.preference = TRUE, !.confidence = 1]
    ELSE IF state.no_count >= threshold
    THEN IF ~state.preference
         THEN [state EXCEPT !.confidence = @ + 2]
         ELSE [state EXCEPT !.preference = FALSE, !.confidence = 1]
    ELSE [state EXCEPT !.confidence = 0]

\* variant of the quorum branch in which yes also needs more votes than no
QuorumStep_Majority(state, threshold) ==
    IF state.yes_count >= threshold /\ state.yes_count > state.no_count
    THEN IF state.preference
         THEN [state EXCEPT !.confidence = @ + 1]
         ELSE [state EXCEPT !.preference = TRUE, !.confidence = 1]
    ELSE IF state.no_count >= threshold
    THEN IF ~state.preference
         THEN [state EXCEPT !.confidence = @ + 1]
         ELSE [state EXCEPT !.preference = FALSE, !.confidence = 1]
    ELSE [state EXCEPT !.confidence = 0]

\* variant of the quorum branch that tests the no count first
QuorumStep_NoFirst(state, threshold) ==
    IF state.no_count >= threshold
    THEN IF ~state.preference
         THEN [state EXCEPT !.confidence = @ + 1]
         ELSE [state EXCEPT !.preference = FALSE, !.confidence = 1]
    ELSE IF state.yes_count >= threshold
    THEN IF state.preference
         THEN [state EXCEPT !.confidence = @ + 1]
         ELSE [state EXCEPT !.preference = TRUE, !.confidence = 1]
    ELSE [state EXCEPT !.confidence = 0]

\* the quorum branch of check_consensus
QuorumStep(state, threshold) ==
    IF state.yes_count >= threshold
    THEN IF state.preference
         THEN [state EXCEPT !.confidence = @ + 1]
         ELSE [state EXCEPT !.preference = TRUE, !.confidence = 1]
    ELSE IF state.no_count >= threshold
    THEN IF ~state.preference
         THEN [state EXCEPT !.confidence = @ + 1]
         ELSE [state EXCEPT !.preference = FALSE, !.confidence = 1]
    ELSE [state EXCEPT !.confidence = 0]

\* variant of the finality branch with the two decisions exchanged
FinalityStep_Inverted(state, beta) ==
    IF state.confidence >= beta
    THEN [state EXCEPT !.decided = TRUE,
                       !.decision = IF state.preference THEN "Reject"
                                    ELSE "Accept"]
    ELSE state

\* variant of the finality branch that asks for more than beta rounds
FinalityStep_Strict(state, beta) ==
    IF state.confidence > beta
    THEN [state EXCEPT !.decided = TRUE,
                       !.decision = IF state.preference THEN "Accept"
                                    ELSE "Reject"]
    ELSE state

\* the finality branch of check_consensus
FinalityStep(state, beta) ==
    IF state.confidence >= beta
    THEN [state EXCEPT !.decided = TRUE,
                       !.decision = IF state.preference THEN "Accept"
                                    ELSE "Reject"]
    ELSE state

\* variant of the test for k votes that lets every vote be checked
TooFew_Never(cfg, total) == FALSE

\* variant of the test for k votes that asks for one vote more
TooFew_OneMore(cfg, total) == total <= cfg.k

\* the test of check_consensus for fewer than k votes
TooFew(cfg, total) == total < cfg.k

\* Wave::check_consensus; ret is the returned bool
check_consensus(cfg, w, block_id) ==
    LET th == get_threshold(cfg, w)
        w1 == [w EXCEPT !.phase = th.phase]
    IN  IF block_id \notin DOMAIN w1.states THEN [w |-> w1, ret |-> FALSE]
        ELSE LET state == w1.states[block_id]
                 total == state.yes_count + state.no_count
                 final == FinalityStep(QuorumStep(state, th.threshold), cfg.beta)
             IN  IF state.decided THEN [w |-> w1, ret |-> FALSE]
                 ELSE IF TooFew(cfg, total) THEN [w |-> w1, ret |-> FALSE]
                 ELSE [w |-> [w1 EXCEPT !.states[block_id] = final],
                       ret |-> final.decided]

\* variant of Wave::get_or_create_state that keeps no other state when it
\* creates one
get_or_create_state_Only(w, block_id) ==
    IF block_id \in DOMAIN w.states THEN w
    ELSE [w EXCEPT !.states = Insert(EmptyMap, block_id, WaveStateDefault)]

\* Wave::get_or_create_state
get_or_create_state(w, block_id) ==
    IF block_id \in DOMAIN w.states THEN w
    ELSE [w EXCEPT !.states = Insert(w.states, block_id, WaveStateDefault)]

\* variant of the counting of a vote in which only a Preference vote is a yes
CountVote_CommitAsNo(state, vote) ==
    [state EXCEPT !.yes_count = IF vote.vote_type = "Preference"
                                THEN @ + 1 ELSE @,
                  !.no_count = IF vote.vote_type = "Preference"
                               THEN @ ELSE @ + 1,
                  !.votes = Append(@, vote)]

\* the vote appended to a WaveState and counted
CountVote(state, vote) ==
    [state EXCEPT !.yes_count = IF prefer(vote) THEN @ + 1 ELSE @,
                  !.no_count = IF prefer(vote) THEN @ ELSE @ + 1,
                  !.votes = Append(@, vote)]

\* variant of the duplicate-voter test that also compares the vote type
HasVoted_SameType(state, vote) ==
    \E i \in 1..Len(state.votes) :
        /\ state.votes[i].voter = vote.voter
        /\ state.votes[i].vote_type = vote.vote_type

\* the duplicate-voter test of Wave::record_vote
HasVoted(state, vote) ==
    \E i \in 1..Len(state.votes) : state.votes[i].voter = vote.voter

\* variant of Wave::record_vote without the early return on a decided state
wave_record_vote_NoDecidedCheck(cfg, w, vote) ==
    LET w1 == get_or_create_state(w, vote.block_id)
        state == w1.states[vote.block_id]
    IN  IF HasVoted(state, vote) THEN [w |-> w1, ret |-> FALSE]
        ELSE check_consensus(cfg,
                 [w1 EXCEPT !.states[vote.block_id] = CountVote(state, vote)],
                 vote.block_id)

\* Wave::record_vote; ret is the returned bool ("decision just reached")
wave_record_vote(cfg, w, vote) ==
    LET w1 == get_or_create_state(w, vote.block_id)
        state == w1.states[vote.block_id]
    IN  IF state.decided THEN [w |-> w1, ret |-> FALSE]
        ELSE IF HasVoted(state, vote) THEN [w |-> w1, ret |-> FALSE]
        ELSE check_consensus(cfg,
                 [w1 EXCEPT !.states[vote.block_id] = CountVote(state, vote)],
                 vote.block_id)

\* Wave::decision
wave_decision(w, block_id) ==
    IF block_id \in DOMAIN w.states THEN w.states[block_id].decision
    ELSE "Undecided"

(***************************************************************************)
(* Quasar.  A QuasarConsensus value q is [validators, finalized]; its       *)
(* threshold is alpha_count of the configuration it was created with.       *)
(***************************************************************************)
\* the signers of create_certificate: voters of the votes cast by validators
Signers(q, votes) ==
    LET f == SelectSeq(votes, LAMBDA v : v.voter \in DOMAIN q.validators)
    IN  [i \in 1..Len(f) |-> f[i].voter]

\* variant of QuasarConsensus::create_certificate that counts the votes
\* supplied and not the validators among their voters
create_certificate_NoSignerCheck(cfg, q, block_id, h, votes) ==
    IF Len(votes) < alpha_count(cfg)
    THEN [q |-> q, ret |-> "NoQuorum", cert |-> << >>]
    ELSE [q |-> [q EXCEPT !.finalized =
                    Insert(@, block_id,
                           [block_id |-> block_id, height |-> h,
                            signers |-> Signers(q, votes)])],
          ret |-> "Ok",
          cert |-> << [block_id |-> block_id, height |-> h,
                       signers |-> Signers(q, votes)] >>]

\* QuasarConsensus::create_certificate
create_certificate(cfg, q, block_id, h, votes) ==
    IF Len(votes) < alpha_count(cfg)
    THEN [q |-> q, ret |-> "NoQuorum", cert |-> << >>]
    ELSE IF Len(Signers(q, votes)) < alpha_count(cfg)
    THEN [q |-> q, ret |-> "NoQuorum", cert |-> << >>]
    ELSE [q |-> [q EXCEPT !.finalized =
                    Insert(@, block_id,
                           [block_id |-> block_id, height |-> h,
                            signers |-> Signers(q, votes)])],
          ret |-> "Ok",
          cert |-> << [block_id |-> block_id, height |-> h,
                       signers |-> Signers(q, votes)] >>]

\* variant of QuasarConsensus::verify_certificate that wants more signers
\* than the threshold
verify_certificate_Strict(cfg, q, cert) ==
    IF Len(cert.signers) <= alpha_count(cfg) THEN FALSE
    ELSE \A i \in 1..Len(cert.signers) : cert.signers[i] \in DOMAIN q.validators

\* QuasarConsensus::verify_certificate
verify_certificate(cfg, q, cert) ==
    IF Len(cert.signers) < alpha_count(cfg) THEN FALSE
    ELSE \A i \in 1..Len(cert.signers) : cert.signers[i] \in DOMAIN q.validators

\* QuasarConsensus::is_finalized
is_finalized(q, block_id) == block_id \in DOMAIN q.finalized

\* QuasarConsensus::get_certificate: an Option, empty or of one certificate
get_certificate(q, block_id) ==
    IF block_id \in DOMAIN q.finalized THEN << q.finalized[block_id] >>
    ELSE << >>

\* QuasarConsensus::add_validator
quasar_add_validator(q, id, weight) ==
    [q EXCEPT !.validators = Insert(@, id, weight)]

(***************************************************************************)
(* Engine.  An engine value e has the fields of Eng.                        *)
(***************************************************************************)
\* the Wave of an engine whose selector is f, and of the engine of the state
WaveWith(f, e) == [fpc |-> f, phase |-> e.phase, states |-> e.states]
WaveOf(e) == WaveWith(fpc, e)
QuasarOf(e) == [validators |-> e.validators, finalized |-> e.finalized]

\* variant of QuasarEngine::accept_block that certifies first and gives up
\* the acceptance when certification fails
accept_block_CertFirst(cfg, e, block_id) ==
    LET e1 == [e EXCEPT !.status = Insert(@, block_id, "Accepted")]
        e2 == IF block_id \in DOMAIN e1.blocks
                 /\ e1.blocks[block_id].height > e1.height
              THEN [e1 EXCEPT !.height = e1.blocks[block_id].height]
              ELSE e1
    IN  IF block_id \in DOMAIN e.states /\ block_id \in DOMAIN e.blocks
        THEN LET c == create_certificate(cfg, QuasarOf(e), block_id,
                                         e.blocks[block_id].height,
                                         e.states[block_id].votes)
             IN  IF c.ret = "Ok"
                 THEN [e2 EXCEPT !.finalized = c.q.finalized]
                 ELSE e
        ELSE e2

\* variant of QuasarEngine::accept_block that assigns the height unguarded
accept_block_NoMax(cfg, e, block_id) ==
    LET e1 == [e EXCEPT !.status = Insert(@, block_id, "Accepted")]
        e2 == IF block_id \in DOMAIN e1.blocks
              THEN [e1 EXCEPT !.height = e1.blocks[block_id].height]
              ELSE e1
    IN  IF block_id \in DOMAIN e2.states /\ block_id \in DOMAIN e2.blocks
        THEN LET c == create_certificate(cfg, QuasarOf(e2), block_id,
                                         e2.blocks[block_id].height,
                                         e2.states[block_id].votes)
             IN  [e2 EXCEPT !.finalized = c.q.finalized]
        ELSE e2

\* QuasarEngine::accept_block
accept_block(cfg, e, block_id) ==
    LET e1 == [e EXCEPT !.status = Insert(@, block_id, "Accepted")]
        e2 == IF block_id \in DOMAIN e1.blocks
                 /\ e1.blocks[block_id].height > e1.height
              THEN [e1 EXCEPT !.height = e1.blocks[block_id].height]
              ELSE e1
    IN  IF block_id \in DOMAIN e2.states /\ block_id \in DOMAIN e2.blocks
        THEN LET c == create_certificate(cfg, QuasarOf(e2), block_id,
                                         e2.blocks[block_id].height,
                                         e2.states[block_id].votes)
             IN  [e2 EXCEPT !.finalized = c.q.finalized]
        ELSE e2

\* variant of QuasarEngine::add without the started guard
add_NoStartedCheck(e, block) ==
    LET w == get_or_create_state(WaveOf(e), block.id)
    IN  [e |-> [e EXCEPT !.blocks = Insert(@, block.id, block),
                         !.status = Insert(@, block.id, "Processing"),
                         !.states = w.states],
         ret |-> "Ok"]

\* QuasarEngine::add
add(e, block) ==
    IF ~e.started THEN [e |-> e, ret |-> "NotInitialized"]
    ELSE LET w == get_or_create_state(WaveOf(e), block.id)
         IN  [e |-> [e EXCEPT !.blocks = Insert(@, block.id, block),
                              !.status = Insert(@, block.id, "Processing"),
                              !.states = w.states],
              ret |-> "Ok"]

\* variant of QuasarEngine::record_vote without the block lookup
record_vote_NoBlockCheck(cfg, e, vote) ==
    IF ~e.started THEN [e |-> e, ret |-> "NotInitialized"]
    ELSE LET r == wave_record_vote(cfg, WaveOf(e), vote)
             e1 == [e EXCEPT !.phase = r.w.phase, !.states = r.w.states]
             decision == wave_decision(r.w, vote.block_id)
         IN  [e |-> IF ~r.ret THEN e1
                    ELSE IF decision = "Accept"
                    THEN accept_block(cfg, e1, vote.block_id)
                    ELSE IF decision = "Reject"
                    THEN [e1 EXCEPT !.status =
                              Insert(@, vote.block_id, "Rejected")]
                    ELSE e1,
              ret |-> "Ok"]

\* QuasarEngine::record_vote of an engine whose Wave has selector f
record_vote_with(f, cfg, e, vote) ==
    IF ~e.started THEN [e |-> e, ret |-> "NotInitialized"]
    ELSE IF vote.block_id \notin DOMAIN e.blocks
    THEN [e |-> e, ret |-> "BlockNotFound"]
    ELSE LET r == wave_record_vote(cfg, WaveWith(f, e), vote)
             e1 == [e EXCEPT !.phase = r.w.phase, !.states = r.w.states]
             decision == wave_decision(r.w, vote.block_id)
         IN  [e |-> IF ~r.ret THEN e1
                    ELSE IF decision = "Accept"
                    THEN accept_block(cfg, e1, vote.block_id)
                    ELSE IF decision = "Reject"
                    THEN [e1 EXCEPT !.status =
                              Insert(@, vote.block_id, "Rejected")]
                    ELSE e1,
              ret |-> "Ok"]

\* QuasarEngine::record_vote
record_vote(cfg, e, vote) == record_vote_with(fpc, cfg, e, vote)

\* variant of QuasarEngine::record_votes_batch that counts every vote
RECURSIVE record_votes_batch_CountsAll(_, _, _)
record_votes_batch_CountsAll(cfg, e, votes) ==
    IF votes = << >> THEN [e |-> e, ret |-> 0]
    ELSE LET r == record_vote(cfg, e, Head(votes))
             rest == record_votes_batch_CountsAll(cfg, r.e, Tail(votes))
         IN  [e |-> rest.e, ret |-> rest.ret + 1]

\* QuasarEngine::record_votes_batch; ret is success_count
RECURSIVE record_votes_batch(_, _, _)
record_votes_batch(cfg, e, votes) ==
    IF votes = << >> THEN [e |-> e, ret |-> 0]
    ELSE LET r == record_vote(cfg, e, Head(votes))
             rest == record_votes_batch(cfg, r.e, Tail(votes))
         IN  [e |-> rest.e,
              ret |-> IF r.ret = "Ok" THEN rest.ret + 1 ELSE rest.ret]

\* variant of QuasarEngine::start without the AlreadyStarted guard
start_NoGuard(e) ==
    [e |-> [e EXCEPT !.blocks = Insert(@, GenesisBlock.id, GenesisBlock),
                     !.status = Insert(@, GenesisBlock.id, "Accepted"),
                     !.started = TRUE],
     ret |-> "Ok"]

\* QuasarEngine::start
start(e) ==
    IF e.started THEN [e |-> e, ret |-> "AlreadyStarted"]
    ELSE [e |-> [e EXCEPT !.blocks = Insert(@, GenesisBlock.id, GenesisBlock),
                          !.status = Insert(@, GenesisBlock.id, "Accepted"),
                          !.started = TRUE],
          ret |-> "Ok"]

\* QuasarEngine::stop
stop(e) == [e |-> [e EXCEPT !.started = FALSE], ret |-> "Ok"]

\* QuasarEngine::add_validator
add_validator(e, id, weight) ==
    LET q == quasar_add_validator(QuasarOf(e), id, weight)
    IN  [e EXCEPT !.validators = q.validators]

\* QuasarEngine::get_status, is_accepted, height (reads)
get_status(id) == IF id \in DOMAIN status THEN status[id] ELSE "Unknown"
is_accepted(id) == id \in DOMAIN status /\ status[id] = "Accepted"
Height == height

(***************************************************************************)
(* Actions: one per engine operation.                                       *)
(***************************************************************************)
\* QuasarEngine::new(cfg)
\* variant of the second instance's configuration with another FPC seed
TwinConfig_OtherSeed(cfg) == [cfg EXCEPT !.fpc_seed = SeedTestnet]

\* the configuration handed to the second instance: the same value
TwinConfig(cfg) == cfg

\* QuasarEngine::new for the second instance
TwinNew(cfg) ==
    [config |-> cfg, fpc |-> WaveFpc(cfg), e |-> EngNew, ret |-> "None"]

InitEngine(cfg) ==
    /\ config = cfg
    /\ fpc = WaveFpc(cfg)
    /\ started = FALSE
    /\ blocks = EmptyMap
    /\ status = EmptyMap
    /\ height = 0
    /\ phase = 0
    /\ states = EmptyMap
    /\ validators = EmptyMap
    /\ finalized = EmptyMap
    /\ ret = "None"
    /\ success_count = 0
    /\ supplied = << >>
    /\ lock = 0
    /\ threads = [t \in Threads |-> Idle]
    /\ serial = EngNew
    /\ seen = Snapshot(EngNew)

\* no object stands beside the engine
Alone ==
    /\ twin = << >>
    /\ selector = << >>
    /\ luminance = << >>
    /\ sampler = << >>
    /\ focus = << >>

InitWith(cfg) == InitEngine(cfg) /\ Alone

Apply(r) ==
    /\ SetEng(r.e)
    /\ ret' = r.ret
    /\ success_count' = 0
    /\ UNCHANGED << config, fpc, components, supplied, lock, threads, serial, seen >>

Start == Apply(start(Eng))

Stop == Apply(stop(Eng))

Add(b, h) == Apply(add(Eng, NewBlock(b, h)))

AddValidator(v, wt) ==
    /\ SetEng(add_validator(Eng, v, wt))
    /\ ret' = "Unit"
    /\ success_count' = 0
    /\ UNCHANGED << config, fpc, components, supplied, lock, threads, serial, seen >>

RecordVote(b, t, v) == Apply(record_vote(config, Eng, NewVote(b, t, v)))

RecordVotesBatch(votes) ==
    LET r == record_votes_batch(config, Eng, votes)
    IN  /\ SetEng(r.e)
        /\ ret' = "Count"
        /\ success_count' = r.ret
        /\ UNCHANGED << config, fpc, components, supplied, lock, threads, serial, seen >>

(***************************************************************************)
(* The callers.  On each block the voters cast their first votes in the     *)
(* order of their ids, as the loops of the tests and examples do; the first *)
(* voter may vote again at any time.  Commit votes come from the first      *)
(* voter only.  The genesis id receives Preference votes only, once the     *)
(* block of the tests is decided.  The block added is the block of the      *)
(* tests, at any height.                                                    *)
(***************************************************************************)
NextVoter(e, b) ==
    IF b \in DOMAIN e.states THEN Len(e.states[b].votes) + 1 ELSE 1

Sends(e, vote) ==
    /\ vote.voter \in { 1, NextVoter(e, vote.block_id) }
    /\ vote.vote_type = "Commit" => vote.voter = 1
    /\ vote.block_id = GenesisId =>
          /\ vote.vote_type = "Preference"
          /\ BlockId \in DOMAIN e.states
          /\ e.states[BlockId].decided

\* validators are registered in the order of their ids
Registers(e, v) == v <= Cardinality(DOMAIN e.validators) + 1

VotesOf(voters) ==
    { NewVote(b, t, v) : b \in VoteIds, t \in VoteTypes, v \in voters }

AllVotes == VotesOf(Voters)

\* The votes a batch is made of: a Preference vote of the next voter for the
\* block of the tests, a Cancel vote repeated by voter 1, or a Preference vote
\* for the id never added.
SendsInBatch(e, vote) ==
    /\ Sends(e, vote)
    /\ \/ /\ vote.block_id = BlockId
          /\ vote.vote_type = "Preference"
          /\ vote.voter = NextVoter(e, BlockId)
       \/ /\ vote.block_id = BlockId
          /\ vote.vote_type = "Cancel"
          /\ vote.voter = 1
          /\ NextVoter(e, BlockId) > 1
       \/ /\ vote.block_id = UnknownId
          /\ vote.vote_type = "Preference"

\* the batches of at most n votes sent to engine e, each vote chosen in the
\* state the votes before it leave; a vote for the id never added ends a batch
RECURSIVE BatchesFrom(_, _, _, _)
BatchesFrom(cfg, e, n, voters) ==
    IF n = 0 THEN { << >> }
    ELSE { << >> } \cup
         UNION { { << vote >> \o rest :
                     rest \in IF vote.block_id = UnknownId THEN { << >> }
                              ELSE BatchesFrom(cfg, record_vote(cfg, e, vote).e,
                                               n - 1, voters) } :
                 vote \in { x \in VotesOf(voters) : SendsInBatch(e, x) } }

Init == \E cfg \in SmallConfigs : InitWith(cfg)

Next ==
    \/ Start
    \/ Stop
    \/ \E h \in Heights : Add(BlockId, h)
    \/ \E v \in 1..MaxValidators : Registers(Eng, v) /\ AddValidator(v, 1)
    \/ \E vote \in AllVotes :
          /\ Sends(Eng, vote)
          /\ RecordVote(vote.block_id, vote.vote_type, vote.voter)
    \/ \E votes \in BatchesFrom(config, Eng, MaxBatch, Voters) :
          RecordVotesBatch(votes)

Spec == Init /\ [][Next]_vars

(***************************************************************************)
(* The testnet test (pkg/typescript/src/lib.rs, test_consensus_engine):     *)
(* the testnet preset and five voters.                                      *)
(***************************************************************************)
InitTestnet == InitWith(ConfigTestnet)

NextTestnet ==
    \/ Start
    \/ Stop
    \/ \E h \in Heights : Add(BlockId, h)
    \/ \E v \in 1..MaxValidators : Registers(Eng, v) /\ AddValidator(v, 1)
    \/ \E vote \in VotesOf(1..TestnetVoters) :
          /\ Sends(Eng, vote)
          /\ RecordVote(vote.block_id, vote.vote_type, vote.voter)
    \/ \E votes \in BatchesFrom(config, Eng, MaxBatch, 1..TestnetVoters) :
          RecordVotesBatch(votes)

SpecTestnet == InitTestnet /\ [][NextTestnet]_vars

(***************************************************************************)
(* The crate-level example (lib.rs, lines 19-50): the mainnet preset and    *)
(* twenty voters in favour of the block.                                    *)
(***************************************************************************)
InitMainnet == InitWith(ConfigMainnet)

SendsMainnet(e, vote) ==
    /\ Sends(e, vote)
    /\ vote.block_id # GenesisId
    /\ vote.vote_type # "Cancel"

NextMainnet ==
    \/ Start
    \/ Stop
    \/ \E h \in Heights : Add(BlockId, h)
    \/ \E v \in 1..MaxValidators : Registers(Eng, v) /\ AddValidator(v, 1)
    \/ \E vote \in VotesOf(1..MainnetVoters) :
          /\ SendsMainnet(Eng, vote)
          /\ RecordVote(vote.block_id, vote.vote_type, vote.voter)
    \/ \E votes \in BatchesFrom(config, Eng, MaxBatch, 1..MainnetVoters) :
          /\ \A i \in 1..Len(votes) : votes[i].vote_type # "Cancel"
          /\ RecordVotesBatch(votes)

SpecMainnet == InitMainnet /\ [][NextMainnet]_vars

(***************************************************************************)
(* The engine fed by batches only, as the batch method of the binding is    *)
(* used.                                                                    *)
(***************************************************************************)
NextBatch ==
    \/ Start
    \/ Stop
    \/ \E h \in Heights : Add(BlockId, h)
    \/ \E v \in 1..MaxValidators : Registers(Eng, v) /\ AddValidator(v, 1)
    \/ \E votes \in BatchesFrom(config, Eng, MaxBatch, Voters) :
          RecordVotesBatch(votes)

SpecBatch == Init /\ [][NextBatch]_vars

(***************************************************************************)
(* QuasarConsensus used on its own: validators are registered and           *)
(* create_certificate is called with vote lists of the caller's choosing,   *)
(* a voter possibly more than once, for the block of the tests, until the   *)
(* block has a certificate.  The votes of a list are in the order of the    *)
(* voters' ids.                                                             *)
(***************************************************************************)
MaxSupplied == MaxBatch + 1

RECURSIVE VoteLists(_, _)
VoteLists(voters, n) ==
    IF n = 0 THEN { << >> }
    ELSE LET shorter == VoteLists(voters, n - 1)
         IN  shorter \cup
             UNION { { Append(votes, NewVote(BlockId, "Preference", v)) :
                          v \in { x \in voters :
                                     Len(votes) = 0
                                        \/ x >= votes[Len(votes)].voter } } :
                     votes \in { x \in shorter : Len(x) = n - 1 } }

SuppliedVotes == VoteLists(Voters, MaxSupplied)

QuasarAddValidator(v, wt) ==
    LET q == quasar_add_validator(QuasarOf(Eng), v, wt)
    IN  /\ validators' = q.validators
        /\ ret' = "Unit"
        /\ UNCHANGED << config, fpc, components, started, blocks, status, height, phase,
                        states, finalized, success_count, supplied,
                        lock, threads, serial, seen >>

CreateCertificate(block_id, h, votes) ==
    LET r == create_certificate(config, QuasarOf(Eng), block_id, h, votes)
    IN  /\ finalized' = r.q.finalized
        /\ ret' = r.ret
        /\ supplied' = votes
        /\ UNCHANGED << config, fpc, components, started, blocks, status, height, phase,
                        states, validators, success_count,
                        lock, threads, serial, seen >>

NextQuasar ==
    \/ \E v \in 1..MaxValidators : Registers(Eng, v) /\ QuasarAddValidator(v, 1)
    \/ \E h \in Heights, votes \in SuppliedVotes :
          /\ ~is_finalized(QuasarOf(Eng), BlockId)
          /\ CreateCertificate(BlockId, h, votes)

SpecQuasar == Init /\ [][NextQuasar]_vars

(***************************************************************************)
(* Threads sharing one engine behind a Mutex.  A call waits for the lock,   *)
(* then writes the fields of the engine one after the other in the order of *)
(* the code, and drops the guard when it returns.                           *)
(***************************************************************************)
Call(kind, b, h, t, v) ==
    [kind |-> kind, block_id |-> b, height |-> h, vote_type |-> t, voter |-> v]

\* the engine call made under the guard
Run(cfg, e, op) ==
    IF op.kind = "start" THEN start(e)
    ELSE IF op.kind = "add" THEN add(e, NewBlock(op.block_id, op.height))
    ELSE IF op.kind = "record_vote"
    THEN record_vote(cfg, e, NewVote(op.block_id, op.vote_type, op.voter))
    ELSE IF op.kind = "add_validator"
    THEN [e |-> add_validator(e, op.voter, 1), ret |-> "Unit"]
    ELSE [e |-> e, ret |-> "Read"]

\* the fields a call writes, in the order of its statements
WriteOrder(op) ==
    IF op.kind = "start"
    THEN << { "blocks" }, { "status" }, { "started" } >>
    ELSE IF op.kind = "add"
    THEN << { "blocks" }, { "status" }, { "states" } >>
    ELSE IF op.kind = "record_vote"
    THEN << { "states", "phase" }, { "status" }, { "height" },
            { "finalized" } >>
    ELSE IF op.kind = "add_validator" THEN << { "validators" } >>
    ELSE << >>

\* engine e with the fields of set S written as in e1
Merge(e, e1, S) ==
    [started |-> IF "started" \in S THEN e1.started ELSE e.started,
     blocks |-> IF "blocks" \in S THEN e1.blocks ELSE e.blocks,
     status |-> IF "status" \in S THEN e1.status ELSE e.status,
     height |-> IF "height" \in S THEN e1.height ELSE e.height,
     phase |-> IF "phase" \in S THEN e1.phase ELSE e.phase,
     states |-> IF "states" \in S THEN e1.states ELSE e.states,
     validators |-> IF "validators" \in S THEN e1.validators
                    ELSE e.validators,
     finalized |-> IF "finalized" \in S THEN e1.finalized ELSE e.finalized]

\* the engines a call passes through from e to e1, one per write that
\* changes a field
RECURSIVE Stages(_, _, _, _)
Stages(e, e1, order, i) ==
    IF i > Len(order) THEN << >>
    ELSE IF Merge(e, e1, order[i]) = e THEN Stages(e, e1, order, i + 1)
    ELSE << Merge(e, e1, order[i]) >>
         \o Stages(Merge(e, e1, order[i]), e1, order, i + 1)

\* variant of Mutex::lock that does not wait
CanLock_NoWait(t) == TRUE

\* Mutex::lock returns once no thread holds the guard
CanLock(t) == lock = 0

\* thread t gets the guard for call op; a call that writes nothing returns
\* at once
Acquire(t, op) ==
    /\ CanLock(t)
    /\ LET r == Run(config, Eng, op)
           st == Stages(Eng, r.e, WriteOrder(op), 1)
       IN  /\ serial' = Run(config, serial, op).e
           /\ seen' = IF op.kind = "read" THEN Snapshot(Eng) ELSE seen
           /\ IF st = << >>
              THEN /\ threads' = [threads EXCEPT ![t] = Idle]
                   /\ ret' = r.ret
                   /\ UNCHANGED lock
              ELSE /\ threads' = [threads EXCEPT ![t] =
                                     [pc |-> "holding", op |-> << op >>,
                                      stages |-> st, res |-> r.ret]]
                   /\ lock' = t
                   /\ UNCHANGED ret
    /\ UNCHANGED << config, fpc, components, started, blocks, status, height, phase,
                    states, validators, finalized, success_count, supplied >>

\* thread t calls a method of the engine while the lock is free
Lock(t, op) == threads[t].pc = "idle" /\ Acquire(t, op)

\* thread t calls a method of the engine while another thread holds the
\* guard: it blocks in Mutex::lock
Wait(t, op) ==
    /\ threads[t].pc = "idle"
    /\ ~CanLock(t)
    /\ threads' = [threads EXCEPT ![t] =
                      [pc |-> "waiting", op |-> << op >>, stages |-> << >>,
                       res |-> "None"]]
    /\ UNCHANGED << config, fpc, components, started, blocks, status, height, phase,
                    states, validators, finalized, ret, success_count,
                    supplied, lock, serial, seen >>

\* the lock is free again and the blocked thread t gets the guard
Wake(t) == threads[t].pc = "waiting" /\ Acquire(t, threads[t].op[1])

\* thread t, holding the guard, makes its next write; after the last one the
\* method returns and the guard is dropped
Write(t) ==
    /\ threads[t].pc = "holding"
    /\ SetEng(threads[t].stages[1])
    /\ IF Len(threads[t].stages) = 1
       THEN /\ threads' = [threads EXCEPT ![t] = Idle]
            /\ lock' = 0
            /\ ret' = threads[t].res
       ELSE /\ threads' = [threads EXCEPT ![t].stages = Tail(@)]
            /\ UNCHANGED << lock, ret >>
    /\ UNCHANGED << config, fpc, components, success_count, supplied, serial, seen >>

\* the votes the threads cast on the block of the tests: the first vote of
\* the next voter, or the Preference vote of voter 1 again
SendsInThread(e, vote) ==
    /\ vote.block_id = BlockId
    /\ \/ /\ vote.voter = NextVoter(e, BlockId)
          /\ vote.vote_type \in { "Preference", "Cancel" }
       \/ /\ vote.voter = 1
          /\ vote.vote_type = "Preference"

\* the calls the threads make: start before the engine is started, add of the
\* block of the tests, votes on it, validators in the order of their ids,
\* and reads
Calls(e) ==
    (IF e.started THEN { } ELSE { Call("start", 0, 0, "", 0) })
       \cup { Call("add", BlockId, h, "", 0) : h \in Heights }
       \cup { Call("record_vote", BlockId, 0, vote.vote_type, vote.voter) :
                 vote \in { x \in AllVotes :
                               SendsInThread(e, x) } }
       \cup { Call("add_validator", 0, 0, "", v) :
                 v \in { x \in 1..MaxValidators : Registers(e, x) } }
       \cup { Call("read", BlockId, 0, "", 0) }

InitThreads == InitWith(ConfigPair)

NextThreads ==
    \/ \E t \in Threads : \E op \in Calls(Eng) : Lock(t, op)
    \/ \E t \in Threads : \E op \in Calls(Eng) :
          op.kind \in { "record_vote", "read" } /\ Wait(t, op)
    \/ \E t \in Threads : Wake(t)
    \/ \E t \in Threads : Write(t)

SpecThreads == InitThreads /\ [][NextThreads]_vars

(***************************************************************************)
(* Properties.                                                              *)
(***************************************************************************)
Max(a, b) == IF a >= b THEN a ELSE b

Decided(sts, b) == b \in DOMAIN sts /\ sts[b].decided

\* block b is undecided before the step and decided after it
JustDecided(b) == ~Decided(states, b) /\ Decided(states', b)

AllPrefer(votes) == \A i \in 1..Len(votes) : prefer(votes[i])

AllCancel(votes) == \A i \in 1..Len(votes) : ~prefer(votes[i])

PreferenceVotes(votes) ==
    Cardinality({ i \in 1..Len(votes) : votes[i].vote_type = "Preference" })

\* batches of votes offered to an engine in the properties below
BatchSample ==
    { NewVote(b, t, 1) : b \in VoteIds, t \in { "Preference", "Cancel" } }

CheckedBatches == UNION { [1..n -> BatchSample] : n \in 0..MaxBatch }

\* C1: once the WaveState of a block is decided, no step changes any of its
\* fields (decided, decision, votes, yes_count, no_count, preference,
\* confidence); the block is stored, and a vote for it from any voter, of any
\* type, leaves the whole engine as it was and is answered Ok by the started
\* engine.
C1_MonotonicDecision ==
    /\ [][\A b \in DOMAIN states :
             states[b].decided =>
                /\ b \in DOMAIN states'
                /\ states'[b] = states[b]]_vars
    /\ [](\A b \in DOMAIN states :
             states[b].decided =>
                /\ b \in DOMAIN blocks
                /\ \A t \in VoteTypes, v \in Voters :
                      LET r == record_vote(config, Eng, NewVote(b, t, v))
                      IN  /\ r.e = Eng
                          /\ started => r.ret = "Ok")

\* a batch of two votes was accepted for a block that had been decided at its
\* second vote and added again since: the vote list still has two entries
C1_Witness ==
    /\ started
    /\ config.k = 2
    /\ config.beta = 1
    /\ Decided(states, BlockId)
    /\ Len(states[BlockId].votes) = 2
    /\ BlockId \in DOMAIN status
    /\ status[BlockId] = "Processing"
    /\ ret = "Count"
    /\ success_count = 2

\* C2: a block whose status is Accepted or Rejected keeps that status in
\* every later step (votes, add of the same id, stop and start).
C2_FinalityIrreversible ==
    [][\A id \in DOMAIN status :
          status[id] \in { "Accepted", "Rejected" } =>
             id \in DOMAIN status' /\ status'[id] = status[id]]_vars

\* C3: a vote list never holds two votes of one voter, and a vote from a
\* voter already in the list of a block, whatever its type, changes nothing
\* (vote list, counts, preference, confidence, phase counter, status) and
\* returns Ok from the started engine.
C3_SingleVote ==
    \A b \in DOMAIN states :
       LET votes == states[b].votes
       IN  /\ \A i, j \in 1..Len(votes) :
                 votes[i].voter = votes[j].voter => i = j
           /\ \A i \in 1..Len(votes), t \in VoteTypes :
                 LET r == record_vote(config, Eng,
                                      NewVote(b, t, votes[i].voter))
                 IN  /\ r.e = Eng
                     /\ (started /\ b \in DOMAIN blocks) => r.ret = "Ok"

\* a batch of two votes for the block was accepted and its vote list holds one
\* vote: the other vote of the batch was a repeated one
C3_Witness ==
    /\ ret = "Count"
    /\ success_count = 2
    /\ BlockId \in DOMAIN states
    /\ Len(states[BlockId].votes) = 1
    /\ ~states[BlockId].decided

\* C4: with FPC off and beta = 1, a block whose votes are unanimous is decided
\* exactly when it has k votes; the step that decides it on prefer votes makes
\* it Accepted and the height max(height, block height), and the step that
\* decides it on Cancel votes makes it Rejected with decision Reject and
\* leaves the height alone.
C4_UnanimousBetaOne ==
    /\ []((config.beta = 1 /\ Len(fpc) = 0) =>
            \A b \in DOMAIN states :
               (AllPrefer(states[b].votes) \/ AllCancel(states[b].votes)) =>
                  /\ Len(states[b].votes) <= config.k
                  /\ states[b].decided <=> Len(states[b].votes) = config.k)
    /\ [][(config.beta = 1 /\ Len(fpc) = 0) =>
             \A b \in DOMAIN states' :
                JustDecided(b) =>
                   /\ AllPrefer(states'[b].votes) =>
                         /\ states'[b].decision = "Accept"
                         /\ b \in DOMAIN status'
                         /\ status'[b] = "Accepted"
                         /\ height' = Max(height, blocks[b].height)
                   /\ AllCancel(states'[b].votes) =>
                         /\ states'[b].decision = "Reject"
                         /\ b \in DOMAIN status'
                         /\ status'[b] = "Rejected"
                         /\ height' = height]_vars

\* the block was accepted on k unanimous votes in favour
C4_Witness ==
    /\ config.beta = 1
    /\ Len(fpc) = 0
    /\ config.k = 3
    /\ Decided(states, BlockId)
    /\ Len(states[BlockId].votes) = config.k
    /\ AllPrefer(states[BlockId].votes)
    /\ is_accepted(BlockId)
    /\ height = blocks[BlockId].height

\* C5: under the testnet preset a block that has Preference votes from 5
\* distinct voters is accepted.
C5_TestnetFiveVotes ==
    \A b \in DOMAIN states \cap DOMAIN blocks :
       PreferenceVotes(states[b].votes) >= TestnetVoters =>
          is_accepted(b) /\ get_status(b) = "Accepted"

\* C6: under the mainnet preset a block that has Preference votes from 20
\* distinct voters is accepted.
C6_MainnetTwentyVotes ==
    \A b \in DOMAIN states \cap DOMAIN blocks :
       PreferenceVotes(states[b].votes) >= MainnetVoters => is_accepted(b)

\* C7: the height never decreases; a step changes it only by deciding a
\* block Accept, and then it is that block's height, above the old one; every
\* block a step decides Accept has a height at most the new height; a step
\* that decides no block Accept leaves the height alone.
C7_HeightMonotonic ==
    [][/\ height' >= height
       /\ height' # height =>
             \E b \in DOMAIN blocks :
                /\ JustDecided(b)
                /\ states'[b].decision = "Accept"
                /\ status'[b] = "Accepted"
                /\ height' = Max(height, blocks[b].height)
       /\ \A b \in DOMAIN blocks :
             (JustDecided(b) /\ states'[b].decision = "Accept") =>
                height' >= Max(height, blocks[b].height)]_vars

\* the genesis id and the block were both accepted by votes, with the height
\* at the higher of the two
C7_Witness ==
    /\ Decided(states, GenesisId)
    /\ Decided(states, BlockId)
    /\ states[GenesisId].decision = "Accept"
    /\ states[BlockId].decision = "Accept"
    /\ blocks[GenesisId].height < blocks[BlockId].height
    /\ height = blocks[BlockId].height

\* C8: add of a block that is stored already, with a WaveState, returns Ok and
\* leaves the stored block, the status map, the WaveState and the height as
\* they were.
C8_AddIdempotent ==
    [][\A b \in Ids, h \in Heights :
          (/\ Add(b, h)
           /\ b \in DOMAIN blocks
           /\ b \in DOMAIN states
           /\ blocks[b] = NewBlock(b, h)) =>
             /\ ret' = "Ok"
             /\ UNCHANGED << blocks, status, states, height >>]_vars

\* C9: on a started engine an id that is not stored (and is not the genesis
\* id) has status Unknown, is not accepted, has no WaveState, and a vote for
\* it returns BlockNotFound and leaves the engine as it was.
C9_UnknownBlock ==
    started =>
       \A id \in VoteIds \ (DOMAIN blocks \cup { GenesisId }) :
          /\ get_status(id) = "Unknown"
          /\ ~is_accepted(id)
          /\ id \notin DOMAIN states
          /\ \A t \in VoteTypes, v \in Voters :
                record_vote(config, Eng, NewVote(id, t, v))
                   = [e |-> Eng, ret |-> "BlockNotFound"]

\* a vote for the id never added has just been refused
C9_Witness ==
    /\ started
    /\ ret = "BlockNotFound"
    /\ UnknownId \notin DOMAIN blocks
    /\ BlockId \in DOMAIN blocks

\* C10: while the engine is not started, add and record_vote return
\* NotInitialized and a batch returns 0, all leaving the engine as it was;
\* stop changes the started flag only, in any state.
C10_NotStarted ==
    /\ ~started =>
          /\ \A b \in Ids, h \in Heights :
                add(Eng, NewBlock(b, h))
                   = [e |-> Eng, ret |-> "NotInitialized"]
          /\ \A vote \in AllVotes :
                record_vote(config, Eng, vote)
                   = [e |-> Eng, ret |-> "NotInitialized"]
          /\ \A votes \in CheckedBatches :
                record_votes_batch(config, Eng, votes)
                   = [e |-> Eng, ret |-> 0]
    /\ stop(Eng) = [e |-> [Eng EXCEPT !.started = FALSE], ret |-> "Ok"]

\* the engine was stopped with the block stored and decided, and an add or a
\* vote has been refused since
C10_Witness ==
    /\ ~started
    /\ ret = "NotInitialized"
    /\ BlockId \in DOMAIN blocks
    /\ Decided(states, BlockId)
    /\ get_status(BlockId) = "Accepted"

\* C11: start on a started engine returns AlreadyStarted and leaves the whole
\* engine (started flag, block map, status map, Wave states, height) as it
\* was.
C11_AlreadyStarted ==
    started => start(Eng) = [e |-> Eng, ret |-> "AlreadyStarted"]

\* a second start has just been refused, with the block stored and voted on
C11_Witness ==
    /\ started
    /\ ret = "AlreadyStarted"
    /\ BlockId \in DOMAIN blocks
    /\ BlockId \in DOMAIN states
    /\ Len(states[BlockId].votes) > 0

\* record_vote called on votes[i], votes[i+1], ... in turn from engine e, with
\* oks the number of calls that have returned Ok so far
RECURSIVE SequentialFrom(_, _, _, _, _)
SequentialFrom(cfg, e, votes, i, oks) ==
    IF i > Len(votes) THEN [e |-> e, ret |-> oks]
    ELSE LET r == record_vote(cfg, e, votes[i])
         IN  SequentialFrom(cfg, r.e, votes, i + 1,
                            IF r.ret = "Ok" THEN oks + 1 ELSE oks)

\* batches that go on after a vote for the id never added
UnknownFirst ==
    { << NewVote(UnknownId, "Preference", 1), vote >> : vote \in BatchSample }

\* C12: a batch leaves the engine in the state that record_vote on each of its
\* votes in list order leaves, and returns the number of those calls that
\* return Ok: 0 on a stopped engine, else the number of votes for stored
\* blocks (repeated votes and votes on decided blocks included).
C12_BatchSequential ==
    \A votes \in BatchesFrom(config, Eng, MaxBatch, Voters) \cup UnknownFirst :
       LET r == record_votes_batch(config, Eng, votes)
       IN  /\ r = SequentialFrom(config, Eng, votes, 1, 0)
           /\ r.ret = IF started
                      THEN Cardinality({ i \in 1..Len(votes) :
                                           votes[i].block_id \in DOMAIN blocks })
                      ELSE 0

\* a batch of two votes, both counted, has decided and accepted the block
C12_Witness ==
    /\ ret = "Count"
    /\ success_count = 2
    /\ config.k = 2
    /\ Decided(states, BlockId)
    /\ Len(states[BlockId].votes) = 2
    /\ is_accepted(BlockId)

YesVotes(votes) == Cardinality({ i \in 1..Len(votes) : prefer(votes[i]) })

CancelVotes(votes) ==
    Cardinality({ i \in 1..Len(votes) : votes[i].vote_type = "Cancel" })

\* C14: for every block, yes_count is the number of Preference and Commit
\* votes in its vote list, no_count the number of Cancel votes in it, and
\* their sum the length of the list.
C14_CounterConsistency ==
    \A b \in DOMAIN states :
       LET st == states[b]
       IN  /\ st.yes_count = YesVotes(st.votes)
           /\ st.no_count = CancelVotes(st.votes)
           /\ st.yes_count + st.no_count = Len(st.votes)

\* the block has a Commit vote, a Preference vote and a Cancel vote
C14_Witness ==
    /\ BlockId \in DOMAIN states
    /\ \A t \in VoteTypes :
          \E i \in 1..Len(states[BlockId].votes) :
             states[BlockId].votes[i].vote_type = t

\* C15: every WaveState has 0 <= confidence <= beta, and it is decided exactly
\* when its confidence is beta, which is exactly when its decision is Accept
\* or Reject; an undecided state has decision Undecided.
C15_ConfidenceBound ==
    \A b \in DOMAIN states :
       LET st == states[b]
       IN  /\ 0 <= st.confidence
           /\ st.confidence <= config.beta
           /\ st.decided <=> st.confidence = config.beta
           /\ st.decided <=> st.decision \in { "Accept", "Reject" }
           /\ ~st.decided <=> st.decision = "Undecided"

\* with beta = 2 the block has its k votes and one confirmed round, and is
\* not decided
C15_Witness ==
    /\ config.beta = 2
    /\ BlockId \in DOMAIN states
    /\ Len(states[BlockId].votes) = config.k
    /\ states[BlockId].confidence = 1
    /\ ~states[BlockId].decided
    /\ states[BlockId].decision = "Undecided"

\* the votes of a list cast by registered validators
ValidatorVotes(votes) ==
    Cardinality({ i \in 1..Len(votes) : votes[i].voter \in DOMAIN validators })

\* C16: a step that decides a block Accept returns Ok (a batch its count),
\* makes the status Accepted and the height at least the block's height; it
\* records a certificate for the block, with the block's height, exactly when
\* at least alpha_count of the block's votes come from registered validators;
\* no other step changes the certificates.
C16_AcceptThenCertify ==
    [][/\ \A b \in DOMAIN blocks :
             (JustDecided(b) /\ states'[b].decision = "Accept") =>
                /\ ret' \in { "Ok", "Count" }
                /\ b \in DOMAIN status'
                /\ status'[b] = "Accepted"
                /\ height' >= blocks[b].height
                /\ b \notin DOMAIN finalized
                /\ IF ValidatorVotes(states'[b].votes) >= alpha_count(config)
                   THEN /\ b \in DOMAIN finalized'
                        /\ finalized'[b].block_id = b
                        /\ finalized'[b].height = blocks[b].height
                   ELSE b \notin DOMAIN finalized'
       /\ finalized' # finalized =>
             \E b \in DOMAIN blocks :
                JustDecided(b) /\ states'[b].decision = "Accept"]_vars

\* the block was accepted with a validator registered and too few validators
\* among its voters: it is Accepted and has no certificate
C16_Witness ==
    /\ Decided(states, BlockId)
    /\ is_accepted(BlockId)
    /\ height = blocks[BlockId].height
    /\ Cardinality(DOMAIN validators) >= 1
    /\ ValidatorVotes(states[BlockId].votes) >= 1
    /\ BlockId \notin DOMAIN finalized

\* the block was accepted and certified
CertifiedReached ==
    /\ Decided(states, BlockId)
    /\ is_accepted(BlockId)
    /\ BlockId \in DOMAIN finalized

\* the last operation was a direct create_certificate that returned Ok
DirectOk == ret = "Ok" /\ supplied # << >>

NoDuplicate(seq) ==
    \A i, j \in 1..Len(seq) : seq[i] = seq[j] => i = j

\* C17: the certificate a successful create_certificate leaves has a signer
\* list without a repeated voter, signers that are all registered validators,
\* and at least alpha_count signers.
C17_CertificateWellFormed ==
    DirectOk =>
       LET cert == finalized[BlockId]
       IN  /\ NoDuplicate(cert.signers)
           /\ \A i \in 1..Len(cert.signers) :
                 cert.signers[i] \in DOMAIN validators
           /\ Len(cert.signers) >= alpha_count(config)

\* C18: whenever create_certificate returns Ok(cert), in the state it leaves
\* verify_certificate(cert) is true, is_finalized(block_id) is true and
\* get_certificate(block_id) is that certificate.
C18_CertificateRoundTrip ==
    \A h \in Heights, votes \in SuppliedVotes :
       LET r == create_certificate(config, QuasarOf(Eng), BlockId, h, votes)
       IN  r.ret = "Ok" =>
              /\ Len(r.cert) = 1
              /\ verify_certificate(config, r.q, r.cert[1])
              /\ is_finalized(r.q, BlockId)
              /\ get_certificate(r.q, BlockId) = r.cert

\* a direct create_certificate returned Ok on votes of distinct validators
\* and one voter that is no validator; its certificate is stored and verifies
C18_Witness ==
    /\ DirectOk
    /\ \E i \in 1..Len(supplied) : supplied[i].voter \notin DOMAIN validators
    /\ is_finalized(QuasarOf(Eng), BlockId)
    /\ finalized[BlockId].signers = Signers(QuasarOf(Eng), supplied)
    /\ NoDuplicate(finalized[BlockId].signers)
    /\ verify_certificate(config, QuasarOf(Eng), finalized[BlockId])

\* C19: create_certificate returns NoQuorum whenever fewer than alpha_count
\* of the votes supplied come from registered validators, and then leaves the
\* certificates as they were.
C19_NoQuorum ==
    \A h \in Heights, votes \in SuppliedVotes :
       LET r == create_certificate(config, QuasarOf(Eng), BlockId, h, votes)
       IN  ValidatorVotes(votes) < alpha_count(config) =>
              /\ r.ret = "NoQuorum"
              /\ r.cert = << >>
              /\ r.q = QuasarOf(Eng)

\* a direct create_certificate with enough votes, some but too few of them
\* from validators, returned NoQuorum and recorded nothing
C19_Witness ==
    /\ ret = "NoQuorum"
    /\ Len(supplied) >= alpha_count(config)
    /\ ValidatorVotes(supplied) >= 1
    /\ ValidatorVotes(supplied) < alpha_count(config)
    /\ finalized = EmptyMap

\* a reading of the block of the tests that no sequence of whole calls leaves:
\* the block stored without a status, or Accepted above the height watermark
Intermediate(s) ==
    \/ s.present /\ s.status = "Unknown"
    \/ s.status = "Accepted" /\ s.height < s.block_height

\* C20: with the calls of several threads going through the Mutex, whenever
\* the lock is free the engine is the one obtained by applying the calls one
\* at a time in locking order and shows no intermediate state; no reader has
\* read an intermediate state; no vote list holds a voter twice.
C20_MutexAtomic ==
    /\ lock = 0 => Eng = serial /\ ~Intermediate(Snapshot(Eng))
    /\ ~Intermediate(seen)
    /\ \A b \in DOMAIN states :
          \A i, j \in 1..Len(states[b].votes) :
             states[b].votes[i].voter = states[b].votes[j].voter => i = j

\* a thread is inside the record_vote that accepts the block, the status
\* written and the height not yet, while another thread is blocked in a read
C20_Witness ==
    \E t, u \in Threads :
       /\ threads[t].pc = "holding"
       /\ threads[t].op[1].kind = "record_vote"
       /\ Intermediate(Snapshot(Eng))
       /\ is_accepted(BlockId)
       /\ threads[u].pc = "waiting"
       /\ threads[u].op[1].kind = "read"

\* two threads are in a vote of the same voter on the block: one holds the
\* guard, the other is blocked
SameVoterReached ==
    \E t, u \in Threads :
       /\ threads[t].pc = "holding"
       /\ threads[u].pc = "waiting"
       /\ threads[t].op[1].kind = "record_vote"
       /\ threads[u].op[1].kind = "record_vote"
       /\ threads[t].op[1].voter = threads[u].op[1].voter

\* a reader has read the block Accepted
ReadAcceptedReached ==
    seen.status = "Accepted" /\ BlockId \in DOMAIN finalized

(***************************************************************************)
(* Two engine instances built from the same configuration and driven by    *)
(* the same operations: the engine of the state and the instance in twin.  *)
(***************************************************************************)
\* one call on an engine whose Wave has selector f
RunWith(f, cfg, e, op) ==
    IF op.kind = "start" THEN start(e)
    ELSE IF op.kind = "stop" THEN stop(e)
    ELSE IF op.kind = "add" THEN add(e, NewBlock(op.block_id, op.height))
    ELSE IF op.kind = "record_vote"
    THEN record_vote_with(f, cfg, e,
                          NewVote(op.block_id, op.vote_type, op.voter))
    ELSE [e |-> add_validator(e, op.voter, 1), ret |-> "Unit"]

\* the same call made on both instances
Both(op) ==
    LET a == RunWith(fpc, config, Eng, op)
        b == RunWith(twin.fpc, twin.config, twin.e, op)
    IN  /\ SetEng(a.e)
        /\ ret' = a.ret
        /\ twin' = [twin EXCEPT !.e = b.e, !.ret = b.ret]
        /\ UNCHANGED << config, fpc, success_count, supplied, lock, threads,
                        serial, seen, selector, luminance, sampler,
                        focus >>

TwinStart == Both(Call("start", 0, 0, "", 0))
TwinStop == Both(Call("stop", 0, 0, "", 0))
TwinAdd(b, h) == Both(Call("add", b, h, "", 0))
TwinRecordVote(b, t, v) == Both(Call("record_vote", b, t, t, v))
TwinAddValidator(v) == Both(Call("add_validator", 0, 0, "", v))

NextTwin ==
    \/ TwinStart
    \/ TwinStop
    \/ \E h \in Heights : TwinAdd(BlockId, h)
    \/ \E v \in 1..MaxValidators : Registers(Eng, v) /\ TwinAddValidator(v)
    \/ \E vote \in AllVotes :
          /\ Sends(Eng, vote)
          /\ TwinRecordVote(vote.block_id, vote.vote_type, vote.voter)

InitTwin ==
    \E cfg \in SmallConfigs :
        /\ InitEngine(cfg)
        /\ twin = TwinNew(TwinConfig(cfg))
        /\ selector = << >>
        /\ luminance = << >>
        /\ sampler = << >>
        /\ focus = << >>

SpecTwin == InitTwin /\ [][NextTwin]_vars

\* the threshold the Wave of selector f consults in phase p
Consulted(f, cfg, p) ==
    get_threshold(cfg, [fpc |-> f, phase |-> p - 1, states |-> EmptyMap])
        .threshold

RECURSIVE ReplayVotes(_, _, _, _, _)
\* Wave::record_vote called with votes[order[i]], votes[order[i+1]], ...
ReplayVotes(cfg, w, votes, order, i) ==
    IF i > Len(votes) THEN w
    ELSE ReplayVotes(cfg, wave_record_vote(cfg, w, votes[order[i]]).w,
                     votes, order, i + 1)

\* Wave::new
WaveNew(cfg) == [fpc |-> WaveFpc(cfg), phase |-> 0, states |-> EmptyMap]

\* the WaveState of block b after its recorded votes were cast in the given
\* order on a fresh Wave
Reordered(cfg, b, votes, order) ==
    ReplayVotes(cfg, get_or_create_state(WaveNew(cfg), b), votes, order, 1)
        .states[b]

\* C22: with FPC disabled, every ordering of the votes recorded for the
\* block that also gets all of them recorded leaves the block with the same
\* decided flag and the same decision.
C22_OrderIndependent ==
    (~config.enable_fpc /\ BlockId \in DOMAIN states) =>
        LET votes == states[BlockId].votes
        IN  \A order \in Permutations(1..Len(votes)) :
               LET other == Reordered(config, BlockId, votes, order)
               IN  Len(other.votes) = Len(votes) =>
                      /\ other.decided = states[BlockId].decided
                      /\ other.decision = states[BlockId].decision

(***************************************************************************)
(* A FpcSelector on its own: FpcSelector::new with arguments from a small   *)
(* set, then theta and select_threshold for any phase.  Ratios are in       *)
(* hundredths and theta(phase) is kept as its numerator over 100 * Limb.    *)
(* hash_u64 / u64::MAX of every phase is computed at construction.          *)
(***************************************************************************)
\* the arguments tried for theta_min and theta_max, in hundredths
ThetaArgs == { 0, 30, 50, 80, 85, 90, 100, 110 }

\* the seeds tried
FpcSeeds == { SeedDefault, SeedTestnet }

\* the sample sizes tried: that of test_fpc_threshold and that of ConfigFpc
FpcKs == { TestK, ConfigFpc.k }

RECURSIVE TopSeq(_, _)
\* hash_u64 of the phases 0 .. n - 1, by its 16 leading bits
TopSeq(seed, n) ==
    IF n = 0 THEN << >>
    ELSE Append(TopSeq(seed, n - 1), HashTop16([seed |-> seed], n - 1))

\* FpcSelector::compute_theta, as a numerator over 100 * Limb
compute_theta(f, p) ==
    f.theta_min * Limb + f.tops[p + 1] * (f.theta_max - f.theta_min)

\* FpcSelector::select_threshold on the standalone selector
select_threshold_of(f, p, k) == CeilDiv(k * compute_theta(f, p), 100 * Limb)

\* FpcSelector::range
range(f) == << f.theta_min, f.theta_max >>

\* FpcSelector::new(a, b, seed), with what was asked and nothing returned yet
SelectorNew(a, b, tops) ==
    LET f == FpcSelectorNew(a, b, << >>)
    IN  [theta_min |-> f.theta_min, theta_max |-> f.theta_max, tops |-> tops,
         asked |-> << a, b >>, phase |-> 0, k |-> 0, theta |-> 0,
         threshold |-> 0, called |-> "new"]

InitFpc ==
    /\ InitEngine(ConfigFpc)
    /\ twin = << >>
    /\ luminance = << >>
    /\ sampler = << >>
    /\ focus = << >>
    /\ \E seed \in FpcSeeds :
          \E tops \in { TopSeq(seed, MaxPhase + 1) } :
             \E a \in ThetaArgs, b \in ThetaArgs :
                selector = SelectorNew(a, b, tops)

\* FpcSelector::theta(phase)
Theta(p) ==
    /\ selector' = [selector EXCEPT !.phase = p, !.called = "theta",
                                    !.theta = compute_theta(selector, p)]
    /\ UNCHANGED << config, fpc, started, blocks, status, height, phase,
                    states, validators, finalized, ret, success_count,
                    supplied, lock, threads, serial, seen, twin, luminance,
                    sampler, focus >>

\* FpcSelector::select_threshold(phase, k)
SelectThreshold(p, k) ==
    /\ selector' = [selector EXCEPT
                       !.phase = p, !.k = k, !.called = "select_threshold",
                       !.theta = compute_theta(selector, p),
                       !.threshold = select_threshold_of(selector, p, k)]
    /\ UNCHANGED << config, fpc, started, blocks, status, height, phase,
                    states, validators, finalized, ret, success_count,
                    supplied, lock, threads, serial, seen, twin, luminance,
                    sampler, focus >>

NextFpc ==
    \/ \E p \in 0..MaxPhase : Theta(p)
    \/ \E p \in 0..MaxPhase, k \in FpcKs : SelectThreshold(p, k)

SpecFpc == InitFpc /\ [][NextFpc]_vars

\* C24: for every pair of arguments FpcSelector::new stores a range with
\* 0 < theta_min < theta_max <= 1; arguments that are such a range are kept,
\* any others are replaced by the defaults (0.5, 0.8).
C24_RangeValid ==
    LET a == selector.asked[1]
        b == selector.asked[2]
    IN  /\ 0 < selector.theta_min
        /\ selector.theta_min < selector.theta_max
        /\ selector.theta_max <= 100
        /\ range(selector) = IF 0 < a /\ a < b /\ b <= 100 THEN << a, b >>
                             ELSE << 50, 80 >>

\* C23: theta(phase) lies in the range [theta_min, theta_max] of the
\* selector, select_threshold(phase, k) lies between ceil(theta_min * k) and
\* ceil(theta_max * k), and for the range [0.5, 0.8] and k = 20 the
\* threshold is one of 10 .. 16.
C23_ThetaInRange ==
    /\ selector.called \in { "theta", "select_threshold" } =>
          /\ selector.theta_min * Limb <= selector.theta
          /\ selector.theta <= selector.theta_max * Limb
    /\ selector.called = "select_threshold" =>
          /\ CeilDiv(selector.theta_min * selector.k, 100)
                <= selector.threshold
          /\ selector.threshold
                <= CeilDiv(selector.theta_max * selector.k, 100)
          /\ (range(selector) = << 50, 80 >> /\ selector.k = TestK) =>
                selector.threshold \in 10..16

(***************************************************************************)
(* f64 values as exact fractions << numerator, denominator >> in lowest    *)
(* terms with a positive denominator.  The multipliers and the limits of   *)
(* the configurations below are dyadic, so that the products taken here    *)
(* are exact in f64 as well.                                               *)
(***************************************************************************)
Abs(n) == IF n < 0 THEN 0 - n ELSE n

RECURSIVE GCD(_, _)
GCD(a, b) == IF b = 0 THEN a ELSE GCD(b, a % b)

Frac(n, d) ==
    LET g == GCD(Abs(n), Abs(d))
        s == IF d < 0 THEN 0 - 1 ELSE 1
    IN  << (s * n) \div g, (s * d) \div g >>

Whole(n) == << n, 1 >>
FracMul(x, y) == Frac(x[1] * y[1], x[2] * y[2])
FracLess(x, y) == x[1] * y[2] < y[1] * x[2]
FracLeq(x, y) == x[1] * y[2] <= y[1] * x[2]

(***************************************************************************)
(* A Luminance on its own: Luminance::new with a configuration from a small *)
(* set, then illuminate calls on a few peers.                               *)
(***************************************************************************)
PeerIds == 1..MaxPeers

\* base, max, min, success_multiplier and failure_multiplier of the
\* configurations tried, all with min <= base <= max, success_multiplier > 1
\* and 0 < failure_multiplier < 1
LuxConfigs ==
    { [base |-> Whole(4), max |-> Whole(16), min |-> Whole(1),
       success_mult |-> Whole(2), failure_mult |-> Frac(1, 2)],
      [base |-> Whole(3), max |-> Whole(10), min |-> Whole(2),
       success_mult |-> Frac(3, 2), failure_mult |-> Frac(3, 4)],
      [base |-> Whole(2), max |-> Whole(4), min |-> Whole(0),
       success_mult |-> Whole(2), failure_mult |-> Frac(1, 2)],
      [base |-> Whole(0), max |-> Whole(4), min |-> Whole(0),
       success_mult |-> Whole(2), failure_mult |-> Frac(1, 2)],
      [base |-> Whole(0 - 2), max |-> Whole(4), min |-> Whole(0 - 4),
       success_mult |-> Whole(2), failure_mult |-> Frac(1, 2)] }

\* Luminance::new
LuminanceNew(cfg) ==
    [lux |-> EmptyMap, base |-> cfg.base, max |-> cfg.max, min |-> cfg.min,
     success_mult |-> cfg.success_mult, failure_mult |-> cfg.failure_mult]

\* Luminance::lux
lux(l, id) == IF id \in DOMAIN l.lux THEN l.lux[id] ELSE l.base

\* x / y in f64 for finite x and y: 0.0 / 0.0 is NaN and x / 0.0 is
\* infinite with the sign of x (inf is -1, 0 or 1)
FracDiv(x, y) ==
    IF y[1] = 0
    THEN [nan |-> x[1] = 0,
          inf |-> IF x[1] > 0 THEN 1 ELSE IF x[1] < 0 THEN 0 - 1 ELSE 0,
          val |-> Whole(0)]
    ELSE [nan |-> FALSE, inf |-> 0, val |-> Frac(x[1] * y[2], x[2] * y[1])]

\* Luminance::brightness
brightness(l, id) == FracDiv(lux(l, id), l.base)

\* Luminance::illuminate
illuminate(l, id, success) ==
    LET current == lux(l, id)
        raised == FracMul(current, l.success_mult)
        lowered == FracMul(current, l.failure_mult)
    IN  [l EXCEPT !.lux = Insert(@, id,
            IF success
            THEN IF FracLess(l.max, raised) THEN l.max ELSE raised
            ELSE IF FracLess(lowered, l.min) THEN l.min ELSE lowered)]

InitLuminance ==
    /\ InitEngine(ConfigFlow)
    /\ twin = << >>
    /\ selector = << >>
    /\ sampler = << >>
    /\ focus = << >>
    /\ \E cfg \in LuxConfigs :
          luminance = [l |-> LuminanceNew(cfg), calls |-> 0, last |-> << >>]

\* one illuminate call; last keeps its arguments and the lux before it
Illuminate(id, success) ==
    /\ luminance.calls < MaxCalls
    /\ luminance' =
          [l |-> illuminate(luminance.l, id, success),
           calls |-> luminance.calls + 1,
           last |-> << [id |-> id, success |-> success,
                        before |-> lux(luminance.l, id)] >>]
    /\ UNCHANGED << config, fpc, started, blocks, status, height, phase,
                    states, validators, finalized, ret, success_count,
                    supplied, lock, threads, serial, seen, twin, selector,
                    sampler, focus >>

NextLuminance == \E id \in PeerIds, success \in BOOLEAN : Illuminate(id, success)

SpecLuminance == InitLuminance /\ [][NextLuminance]_vars

\* the three statements of the claim on the Luminance l
LuminanceHolds(l, last) ==
    /\ \A id \in DOMAIN l.lux :
          FracLeq(l.min, lux(l, id)) /\ FracLeq(lux(l, id), l.max)
    /\ \A id \in PeerIds \ DOMAIN l.lux :
          /\ lux(l, id) = l.base
          /\ brightness(l, id) = FracDiv(Whole(1), Whole(1))
    /\ \A i \in 1..Len(last) :
          IF last[i].success
          THEN FracLeq(last[i].before, lux(l, last[i].id))
          ELSE FracLeq(lux(l, last[i].id), last[i].before)

\* the precondition of the claim
LuminanceConfigured(l) ==
    /\ FracLeq(l.min, l.base)
    /\ FracLeq(l.base, l.max)
    /\ FracLess(Whole(1), l.success_mult)
    /\ FracLess(Whole(0), l.failure_mult)
    /\ FracLess(l.failure_mult, Whole(1))

\* C27 as stated: for min <= base <= max, success_mult > 1 and
\* 0 < failure_mult < 1, every tracked peer has min <= lux <= max, an
\* untracked peer reports lux = base and brightness 1.0, a success never
\* lowers and a failure never raises the lux of the peer.
C27_LuminanceBounds ==
    LuminanceConfigured(luminance.l) =>
        LuminanceHolds(luminance.l, luminance.last)

\* the same holds for the configurations that also have 0 <= min and 0 < base
BoundsOfPositiveLux ==
    (/\ LuminanceConfigured(luminance.l)
     /\ FracLeq(Whole(0), luminance.l.min)
     /\ FracLess(Whole(0), luminance.l.base)) =>
        LuminanceHolds(luminance.l, luminance.last)
(***************************************************************************)
(* f64 values that may be NaN or infinite: [nan, inf, val], as FracDiv      *)
(* returns them.                                                            *)
(***************************************************************************)
FracAdd(x, y) == Frac(x[1] * y[2] + y[1] * x[2], x[2] * y[2])

\* x * f for a finite f > 0
FloatScale(x, f) == [x EXCEPT !.val = FracMul(@, f)]

\* x > y in f64: false when either is NaN
FloatGreater(x, y) ==
    /\ ~x.nan
    /\ ~y.nan
    /\ IF x.inf # 0 \/ y.inf # 0 THEN x.inf > y.inf
       ELSE FracLess(y.val, x.val)

\* x == y in f64
FloatEqual(x, y) ==
    /\ ~x.nan
    /\ ~y.nan
    /\ x.inf = y.inf
    /\ x.inf = 0 => x.val = y.val

RECURSIVE FracSum(_, _)
FracSum(weights, n) ==
    IF n = 0 THEN Whole(0) ELSE FracAdd(FracSum(weights, n - 1), weights[n].val)

\* weights.iter().sum() == 0.0
TotalIsZero(weights) ==
    /\ \A i \in 1..Len(weights) : ~weights[i].nan /\ weights[i].inf = 0
    /\ FracSum(weights, Len(weights)) = Whole(0)

(***************************************************************************)
(* PhotonSampler.  Indices are those of the Vec plus one.                   *)
(***************************************************************************)
\* score > best_score, where best is << >> while best_score is f64::MIN
Beats(score, best) ==
    IF best = << >> THEN ~score.nan /\ score.inf >= 0
    ELSE FloatGreater(score, best[1])

\* weight * ((idx + i + 1) as f64 / peers.len() as f64) for slot i
Score(weights, i, idx) ==
    FloatScale(weights[idx], Frac(idx - 1 + i + 1, Len(weights)))

RECURSIVE Scan(_, _, _, _, _, _)
\* the inner loop of sample from index idx on: the best_idx it ends with
Scan(weights, used, i, idx, best_idx, best) ==
    IF idx > Len(weights) THEN best_idx
    ELSE IF used[idx] THEN Scan(weights, used, i, idx + 1, best_idx, best)
    ELSE IF Beats(Score(weights, i, idx), best)
    THEN Scan(weights, used, i, idx + 1, idx, << Score(weights, i, idx) >>)
    ELSE Scan(weights, used, i, idx + 1, best_idx, best)

RECURSIVE Slots(_, _, _, _, _, _)
\* the outer loop of sample from slot i on
Slots(peers, weights, used, i, k, selected) ==
    IF i = k THEN selected
    ELSE LET best_idx == Scan(weights, used, i, 1, 1, << >>)
         IN  Slots(peers, weights, [used EXCEPT ![best_idx] = TRUE], i + 1, k,
                   Append(selected, peers[best_idx]))

\* the weights sample computes
Weights(s) ==
    [idx \in 1..Len(s.peers) |-> brightness(s.luminance, s.peers[idx])]

\* PhotonSampler::sample
sample(s, k) ==
    IF s.peers = << >> THEN << >>
    ELSE LET n == Len(s.peers)
             k1 == IF k < n THEN k ELSE n
         IN  IF TotalIsZero(Weights(s)) THEN SubSeq(s.peers, 1, k1)
             ELSE Slots(s.peers, Weights(s), [idx \in 1..n |-> FALSE], 0, k1,
                        << >>)

\* PhotonSampler::add_peer
add_peer(s, peer) ==
    IF \E i \in 1..Len(s.peers) : s.peers[i] = peer THEN s
    ELSE [s EXCEPT !.peers = Append(@, peer)]

\* PhotonSampler::remove_peer
remove_peer(s, peer) ==
    [s EXCEPT !.peers = SelectSeq(@, LAMBDA p : p # peer)]

\* PhotonSampler::update_luminance
update_luminance(s, id, success) ==
    [s EXCEPT !.luminance = illuminate(@, id, success)]

\* PhotonSampler::new
PhotonSamplerNew(peers, lcfg, k) ==
    [peers |-> peers, luminance |-> LuminanceNew(lcfg), k |-> k]

\* the peer lists handed to PhotonSampler::new
FirstPeers == { << >>, << 2, 1 >> }

InitPhoton ==
    /\ InitEngine(ConfigFlow)
    /\ twin = << >>
    /\ selector = << >>
    /\ luminance = << >>
    /\ focus = << >>
    /\ \E lcfg \in LuxConfigs, peers \in FirstPeers :
          sampler = [s |-> PhotonSamplerNew(peers, lcfg, ConfigFlow.k),
                     calls |-> 0, last |-> << >>]

\* a call that changes the sampler
Change(s) ==
    /\ sampler' = [sampler EXCEPT !.s = s, !.last = << >>]
    /\ UNCHANGED << config, fpc, started, blocks, status, height, phase,
                    states, validators, finalized, ret, success_count,
                    supplied, lock, threads, serial, seen, twin, selector,
                    luminance, focus >>

AddPeer(peer) == Change(add_peer(sampler.s, peer))
RemovePeer(peer) == Change(remove_peer(sampler.s, peer))

UpdateLuminance(id, success) ==
    /\ sampler.calls < MaxCalls
    /\ sampler' = [s |-> update_luminance(sampler.s, id, success),
                   calls |-> sampler.calls + 1, last |-> << >>]
    /\ UNCHANGED << config, fpc, started, blocks, status, height, phase,
                    states, validators, finalized, ret, success_count,
                    supplied, lock, threads, serial, seen, twin, selector,
                    luminance, focus >>

\* sample(k); last keeps k and the Vec returned
Sample(k) ==
    /\ sampler' = [sampler EXCEPT
                      !.last = << [k |-> k, result |-> sample(sampler.s, k)] >>]
    /\ UNCHANGED << config, fpc, started, blocks, status, height, phase,
                    states, validators, finalized, ret, success_count,
                    supplied, lock, threads, serial, seen, twin, selector,
                    luminance, focus >>

NextPhoton ==
    \/ \E peer \in PeerIds : AddPeer(peer)
    \/ \E peer \in PeerIds : RemovePeer(peer)
    \/ \E id \in PeerIds, success \in BOOLEAN : UpdateLuminance(id, success)
    \/ \E k \in 0..(MaxPeers + 1) : Sample(k)

SpecPhoton == InitPhoton /\ [][NextPhoton]_vars

\* the position of peer p in a list without duplicates
IndexOf(peers, p) == CHOOSE idx \in 1..Len(peers) : peers[idx] = p

NoDuplicates(peers) ==
    \A i \in 1..Len(peers), j \in 1..Len(peers) :
        peers[i] = peers[j] => i = j

\* slot i (from 0) of the result holds an unused peer of the best score, the
\* one of the lowest index among those of that score
BestOfSlot(s, result, i) ==
    LET weights == Weights(s)
        taken == { IndexOf(s.peers, result[j]) : j \in 1..i }
        free == (1..Len(s.peers)) \ taken
        at == IndexOf(s.peers, result[i + 1])
    IN  /\ at \in free
        /\ \A idx \in free :
              ~FloatGreater(Score(weights, i, idx), Score(weights, i, at))
        /\ \A idx \in free :
              FloatEqual(Score(weights, i, idx), Score(weights, i, at)) =>
                 at <= idx

\* C28: for a peer list without duplicates sample(k) returns exactly
\* min(k, |peers|) pairwise distinct peers of the list (none for an empty
\* list), and unless the total weight is zero every slot holds the unused
\* peer of the best score, the one of the lowest index among equal scores.
C28_SampleDistinct ==
    (Len(sampler.last) = 1 /\ NoDuplicates(sampler.s.peers)) =>
        LET result == sampler.last[1].result
            k == sampler.last[1].k
            n == Len(sampler.s.peers)
        IN  /\ Len(result) = IF k < n THEN k ELSE n
            /\ NoDuplicates(result)
            /\ \A i \in 1..Len(result) :
                  \E idx \in 1..n : sampler.s.peers[idx] = result[i]
            /\ ~TotalIsZero(Weights(sampler.s)) =>
                  \A i \in 0..(Len(result) - 1) :
                     BestOfSlot(sampler.s, result, i)

(***************************************************************************)
(* A Focus on its own: Focus::new(threshold, alpha) with a few thresholds   *)
(* (beta) and ratios alpha, then update calls on two items.  A vote ratio  *)
(* is kept as the fraction yes / total.                                     *)
(***************************************************************************)
FocusIds == { GenesisId, BlockId }

\* alpha of test_focus_confidence and a second one, in hundredths
FocusAlphas == { 60, 75 }

\* the (yes_votes, total_votes) handed to update
FocusVotes ==
    { << 0, 0 >>, << 1, 0 >>, << 0, 2 >>, << 1, 2 >>, << 2, 2 >>, << 3, 2 >>,
      << 1, 3 >>, << 2, 3 >> }

\* FocusState::default
FocusStateDefault ==
    [confidence |-> 0, preference |-> FALSE, decided |-> FALSE,
     decision |-> "Undecided", last_ratio |-> Whole(0)]

\* Focus::new
FocusNew(threshold, alpha) ==
    [threshold |-> threshold, alpha |-> alpha, states |-> EmptyMap]

\* ratio >= self.alpha
AboveAlpha(f, ratio) == FracLeq(Frac(f.alpha, 100), ratio)

\* ratio <= 1.0 - self.alpha
BelowInverse(f, ratio) == FracLeq(ratio, Frac(100 - f.alpha, 100))

\* variant of the three branches that keeps the confidence in the uncertain
\* zone
FocusStep_KeepsConfidence(f, state, ratio) ==
    IF AboveAlpha(f, ratio)
    THEN IF state.preference
         THEN [state EXCEPT !.confidence = @ + 1]
         ELSE [state EXCEPT !.preference = TRUE, !.confidence = 1]
    ELSE IF BelowInverse(f, ratio)
    THEN IF ~state.preference
         THEN [state EXCEPT !.confidence = @ + 1]
         ELSE [state EXCEPT !.preference = FALSE, !.confidence = 1]
    ELSE state

\* the three branches of Focus::update on the ratio
FocusStep(f, state, ratio) ==
    IF AboveAlpha(f, ratio)
    THEN IF state.preference
         THEN [state EXCEPT !.confidence = @ + 1]
         ELSE [state EXCEPT !.preference = TRUE, !.confidence = 1]
    ELSE IF BelowInverse(f, ratio)
    THEN IF ~state.preference
         THEN [state EXCEPT !.confidence = @ + 1]
         ELSE [state EXCEPT !.preference = FALSE, !.confidence = 1]
    ELSE [state EXCEPT !.confidence = 0]

\* the finality branch of Focus::update
FocusFinalityStep(state, threshold) ==
    IF state.confidence >= threshold
    THEN [state EXCEPT !.decided = TRUE,
                       !.decision = IF state.preference THEN "Accept"
                                    ELSE "Reject"]
    ELSE state

\* variant of the early return of Focus::update that never takes it
FocusDone_Never(state) == FALSE

\* the early return of Focus::update on a decided item
FocusDone(state) == state.decided

\* Focus::update; ret is the returned bool
focus_update(f, id, yes_votes, total_votes) ==
    IF total_votes = 0 THEN [f |-> f, ret |-> FALSE]
    ELSE LET ratio == Frac(yes_votes, total_votes)
             f1 == IF id \in DOMAIN f.states THEN f
                   ELSE [f EXCEPT !.states = Insert(@, id, FocusStateDefault)]
             state == f1.states[id]
             stepped == FocusStep(f1, [state EXCEPT !.last_ratio = ratio],
                                  ratio)
             final == FocusFinalityStep(stepped, f.threshold)
         IN  IF FocusDone(state) THEN [f |-> f1, ret |-> FALSE]
             ELSE [f |-> [f1 EXCEPT !.states[id] = final],
                   ret |-> final.decided]

\* Focus::state, with the default for an item without one
FocusStateOf(f, id) ==
    IF id \in DOMAIN f.states THEN f.states[id] ELSE FocusStateDefault

InitFocus ==
    /\ InitEngine(ConfigFlow)
    /\ twin = << >>
    /\ selector = << >>
    /\ luminance = << >>
    /\ sampler = << >>
    /\ \E threshold \in 0..MaxBeta, alpha \in FocusAlphas :
          focus = [f |-> FocusNew(threshold, alpha), last |-> << >>,
                   streak |-> [id \in FocusIds |-> 0],
                   trues |-> [id \in FocusIds |-> 0]]

\* one update call.  last keeps its arguments and its result; streak[id] is
\* the number of calls on id with total_votes > 0 while all of them had a
\* ratio >= alpha (counted up to one past the threshold), else 0; trues[id] is the
\* number of calls on id that returned true (counted up to 2).
FocusUpdate(id, yes_votes, total_votes) ==
    LET r == focus_update(focus.f, id, yes_votes, total_votes)
        n == focus.streak[id]
        fresh == id \notin DOMAIN focus.f.states
    IN  /\ focus' =
              [f |-> r.f,
               last |-> << [id |-> id, yes_votes |-> yes_votes,
                            total_votes |-> total_votes, ret |-> r.ret] >>,
               streak |-> IF total_votes = 0 THEN focus.streak
                          ELSE [focus.streak EXCEPT ![id] =
                                  IF ~AboveAlpha(focus.f,
                                                 Frac(yes_votes, total_votes))
                                     \/ (~fresh /\ n = 0)
                                  THEN 0
                                  ELSE IF n > Max(focus.f.threshold, 1) THEN n
                                  ELSE n + 1],
               trues |-> IF r.ret /\ focus.trues[id] < 2
                         THEN [focus.trues EXCEPT ![id] = @ + 1]
                         ELSE focus.trues]
        /\ UNCHANGED << config, fpc, started, blocks, status, height, phase,
                        states, validators, finalized, ret, success_count,
                        supplied, lock, threads, serial, seen, twin, selector,
                        luminance, sampler >>

NextFocus ==
    \E id \in FocusIds, votes \in FocusVotes :
        FocusUpdate(id, votes[1], votes[2])

SpecFocus == InitFocus /\ [][NextFocus]_vars

\* the call of the step just taken, and the state of its item before and after
LastUpdate == focus'.last[1]
FocusBefore == FocusStateOf(focus.f, LastUpdate.id)
FocusAfter == FocusStateOf(focus'.f, LastUpdate.id)

\* the rule of update on an undecided item, for r = yes_votes / total_votes
UpdateRule(alpha, threshold, c, before, after) ==
    /\ IF 100 * c.yes_votes >= alpha * c.total_votes
       THEN /\ after.preference
            /\ after.confidence =
                  IF before.preference THEN before.confidence + 1 ELSE 1
       ELSE IF 100 * c.yes_votes <= (100 - alpha) * c.total_votes
       THEN /\ ~after.preference
            /\ after.confidence =
                  IF ~before.preference THEN before.confidence + 1 ELSE 1
       ELSE /\ after.preference = before.preference
            /\ after.confidence = 0
    /\ after.decided = (after.confidence >= threshold)
    /\ after.decision = IF ~after.decided THEN "Undecided"
                        ELSE IF after.preference THEN "Accept" ELSE "Reject"
    /\ c.ret = after.decided

C26_DecidedIsFinal ==
    /\ [](focus.f.threshold >= 1 =>
            \A id \in FocusIds :
               /\ FocusStateOf(focus.f, id).confidence <= focus.f.threshold
               /\ FocusStateOf(focus.f, id).confidence = focus.f.threshold =>
                     FocusStateOf(focus.f, id).decided
               /\ focus.trues[id] <= 1)
    /\ [][(focus.f.threshold >= 1 /\ FocusBefore.decided) =>
             /\ ~LastUpdate.ret
             /\ FocusAfter = FocusBefore]_vars

C26_Witness ==
    /\ Len(focus.last) = 1
    /\ focus.f.threshold >= 1
    /\ focus.last[1].id = BlockId
    /\ ~focus.last[1].ret
    /\ focus.last[1].total_votes > 0
    /\ FocusStateOf(focus.f, BlockId).decision = "Accept"
    /\ focus.trues[BlockId] = 1
    /\ focus.last[1].yes_votes = 0
    /\ FocusStateOf(focus.f, BlockId).last_ratio # Whole(0)

(***************************************************************************)
(* The engine under single votes: the small configurations and the one of  *)
(* the uncertain zone, with as many voters as the sample asks for.          *)
(***************************************************************************)
VotersFor(cfg) == IF cfg.k > MaxVoters THEN 1..cfg.k ELSE Voters

InitVotes == \E cfg \in SmallConfigs \cup { ConfigUncertain } : InitWith(cfg)

NextVotes ==
    \/ Start
    \/ Stop
    \/ \E h \in Heights : Add(BlockId, h)
    \/ \E vote \in VotesOf(VotersFor(config)) :
          /\ Sends(Eng, vote)
          /\ RecordVote(vote.block_id, vote.vote_type, vote.voter)

SpecVotes == InitVotes /\ [][NextVotes]_vars

\* the WaveState of block b in the map m, the default when it has none
LedgerOf(m, b) == IF b \in DOMAIN m THEN m[b] ELSE WaveStateDefault

\* the step appends a vote to the ledger of block b
Appended(b) ==
    Len(LedgerOf(states', b).votes) = Len(LedgerOf(states, b).votes) + 1

\* the threshold of the check the step makes
ThresholdUsed ==
    IF config.enable_fpc THEN fpc[1].thresholds[phase']
    ELSE alpha_count(config)

\* the outcome of one consensus check with threshold T on a WaveState whose
\* fields before the vote were as in before
CheckRule(cfg, T, before, after) ==
    IF after.yes_count + after.no_count < cfg.k
    THEN /\ after.confidence = before.confidence
         /\ after.preference = before.preference
         /\ after.decided = before.decided
         /\ after.decision = before.decision
    ELSE /\ IF after.yes_count >= T
            THEN /\ after.preference
                 /\ after.confidence =
                       IF before.preference THEN before.confidence + 1 ELSE 1
            ELSE IF after.no_count >= T
            THEN /\ ~after.preference
                 /\ after.confidence =
                       IF ~before.preference THEN before.confidence + 1 ELSE 1
            ELSE /\ after.preference = before.preference
                 /\ after.confidence = 0
         /\ after.decided = (after.confidence >= cfg.beta)
         /\ after.decision = IF ~after.decided THEN "Undecided"
                             ELSE IF after.preference THEN "Accept"
                             ELSE "Reject"

\* C29: a step that appends a vote to the ledger of a block makes one
\* consensus check on it with the threshold T of the step: with fewer than k
\* votes only the ledger and its counts change; else yes_count >= T raises
\* the confidence by one when the preference was yes and otherwise sets
\* preference yes with confidence 1, else no_count >= T does the same for
\* no, else the confidence becomes 0 with the preference unchanged; the
\* block is decided in that check exactly when confidence >= beta, Accept
\* for yes and Reject for no.  With k = 10, alpha = 0.7, five yes and five
\* no votes leave confidence 0, undecided, status Processing.
C29_CheckPerVote ==
    /\ [][\A b \in VoteIds :
            Appended(b) =>
               /\ LedgerOf(states', b).yes_count + LedgerOf(states', b).no_count
                     = LedgerOf(states, b).yes_count
                        + LedgerOf(states, b).no_count + 1
               /\ CheckRule(config, ThresholdUsed, LedgerOf(states, b),
                            LedgerOf(states', b))]_vars
    /\ []((/\ config = ConfigUncertain
           /\ LedgerOf(states, BlockId).yes_count = 5
           /\ LedgerOf(states, BlockId).no_count = 5) =>
             /\ states[BlockId].confidence = 0
             /\ ~states[BlockId].decided
             /\ status[BlockId] = "Processing")

C29_Witness ==
    /\ config = ConfigUncertain
    /\ LedgerOf(states, BlockId).yes_count = 5
    /\ LedgerOf(states, BlockId).no_count = 5
    /\ ret = "Ok"

\* C30: with FPC enabled the phase grows by exactly 1 in every step that
\* appends a vote to the ledger of any block, also when the check abstains,
\* and the check of that step uses select_threshold(new phase, k); it is
\* unchanged by every other step (duplicate votes, votes on decided blocks,
\* failing operations, add, start, stop) and never decreases; with FPC
\* disabled it stays 0 and every check uses ceil(alpha * k).
C30_PhasePerVote ==
    /\ [][/\ phase' = IF config.enable_fpc /\ \E b \in VoteIds : Appended(b)
                      THEN phase + 1 ELSE phase
          /\ \A b \in VoteIds :
                (/\ Appended(b)
                 /\ LedgerOf(states', b).yes_count
                       + LedgerOf(states', b).no_count >= config.k) =>
                   LET T == IF config.enable_fpc
                            THEN Consulted(fpc, config, phase')
                            ELSE alpha_count(config)
                   IN  (states'[b].confidence > 0)
                          = (states'[b].yes_count >= T
                               \/ states'[b].no_count >= T)]_vars
    /\ [](~config.enable_fpc => phase = 0)

C30_Witness ==
    /\ config.enable_fpc
    /\ phase = MaxVoters + 1
    /\ GenesisId \in DOMAIN states
    /\ Len(states[GenesisId].votes) = 1
    /\ states[BlockId].decided

(***************************************************************************)
(* The polls of one block under every small configuration, the sample of   *)
(* one vote and the sample of ten votes: the operations of SpecVotes.      *)
(***************************************************************************)
PollConfigs == SmallConfigs \cup { ConfigUncertain, ConfigSingle }

InitPolls == \E cfg \in PollConfigs : InitWith(cfg)

SpecPolls == InitPolls /\ [][NextVotes]_vars

\* the number of votes after which a block can be decided at the earliest
EarliestDecision(cfg) == cfg.k + cfg.beta - 1

C32_DecisionCounts ==
    /\ [](~config.enable_fpc =>
            \A b \in VoteIds :
               LET state == LedgerOf(states, b)
                   T == alpha_count(config)
               IN  /\ state.decision = "Accept" => state.yes_count >= T
                   /\ state.decision = "Reject" =>
                         /\ state.no_count >= T
                         /\ state.yes_count < T
                   /\ (b \in DOMAIN status /\ status[b] = "Rejected") =>
                         state.yes_count < T)
    /\ [][\A b \in VoteIds :
            LedgerOf(states, b).decided =>
               /\ LedgerOf(states', b).yes_count = states[b].yes_count
               /\ LedgerOf(states', b).no_count = states[b].no_count
               /\ LedgerOf(states', b).decision = states[b].decision]_vars

C32_Witness ==
    /\ config = ConfigPair
    /\ LedgerOf(states, BlockId).decision = "Reject"
    /\ LedgerOf(states, BlockId).yes_count = 1
    /\ status[BlockId] = "Rejected"
    /\ ret = "Ok"

\* C33: with FPC disabled and alpha > 0.5, a block whose decision is Accept
\* has yes_count > no_count: no block is Accepted while more distinct
\* voters have voted Cancel than Preference or Commit.
C33_MajorityAccept ==
    (~config.enable_fpc /\ config.alpha > 50) =>
        \A b \in VoteIds :
           LedgerOf(states, b).decision = "Accept" =>
              states[b].yes_count > states[b].no_count

\* the votes of the given types cast on block b by voters that have not
\* voted on it, the first of them numbered first
FurtherVotes(b, types, first) ==
    [i \in 1..Len(types) |-> NewVote(b, types[i], first + i - 1)]

\* the WaveState of block b after Wave::record_vote took the further votes
AfterFurther(cfg, w, b, types) ==
    ReplayVotes(cfg, w,
                FurtherVotes(b, types, Len(w.states[b].votes) + 1),
                [i \in 1..Len(types) |-> i], 1).states[b]

\* block b is undecided with at least k votes, yes_count >= ceil(alpha * k)
Leading(cfg, state) ==
    /\ ~state.decided
    /\ state.yes_count + state.no_count >= cfg.k
    /\ state.yes_count >= alpha_count(cfg)

\* C34: with FPC disabled, when an undecided block has at least k votes and
\* yes_count >= ceil(alpha * k), every step that records a further vote on
\* it, of any type, leaves the preference yes and raises the confidence by
\* one (or sets it to 1), and a decision reached in that step is Accept with
\* status Accepted; beta further votes by new voters, of any types, end with
\* the block decided Accept.
C34_BoundedResponse ==
    /\ [][\A b \in VoteIds :
            (/\ ~config.enable_fpc
             /\ Leading(config, LedgerOf(states, b))
             /\ Appended(b)) =>
               /\ states'[b].preference
               /\ states'[b].confidence =
                     IF states[b].preference THEN states[b].confidence + 1
                     ELSE 1
               /\ states'[b].decision # "Reject"
               /\ states'[b].decided => status'[b] = "Accepted"]_vars
    /\ [](\A b \in VoteIds :
            (~config.enable_fpc /\ Leading(config, LedgerOf(states, b))) =>
               \A types \in [1..config.beta -> VoteTypes] :
                  AfterFurther(config, WaveOf(Eng), b, types).decision
                     = "Accept")

C34_Witness ==
    /\ config = ConfigSingle
    /\ LedgerOf(states, BlockId).decision = "Accept"
    /\ LedgerOf(states, BlockId).yes_count = 1
    /\ LedgerOf(states, BlockId).no_count = 2
    /\ status[BlockId] = "Accepted"

(***************************************************************************)
(* Two blocks.  The callers add blocks under the id of the tests and under *)
(* the all-zero id, and vote on both in any interleaving, every voter with *)
(* any type; FPC is disabled.                                              *)
(***************************************************************************)
SendsAny(e, vote) ==
    /\ vote.voter \in { 1, NextVoter(e, vote.block_id) }
    /\ vote.vote_type = "Commit" => vote.voter = 1

InitBlocks == \E cfg \in { ConfigPair, ConfigTwoRounds } : InitWith(cfg)

NextBlocks ==
    \/ Start
    \/ Stop
    \/ \E b \in { GenesisId, BlockId } : Add(b, MaxHeight)
    \/ \E vote \in AllVotes :
          /\ SendsAny(Eng, vote)
          /\ RecordVote(vote.block_id, vote.vote_type, vote.voter)

SpecBlocks == InitBlocks /\ [][NextBlocks]_vars

\* C35: for every block that was added, the status is Accepted exactly when
\* the Wave decision of the block is Accept, Rejected exactly when it is
\* Reject, and Processing exactly when the block is undecided.
C35_StatusAgrees ==
    \A b \in DOMAIN blocks \ { GenesisId } :
       /\ b \in DOMAIN status
       /\ (status[b] = "Accepted") = (LedgerOf(states, b).decision = "Accept")
       /\ (status[b] = "Rejected") = (LedgerOf(states, b).decision = "Reject")
       /\ (status[b] = "Processing") = ~LedgerOf(states, b).decided

\* C36: while the engine is started, get_status of the all-zero id is
\* Accepted and is_accepted of it is true, whatever blocks are added and
\* whatever votes are recorded.
C36_GenesisAccepted ==
    started =>
       /\ get_status(GenesisId) = "Accepted"
       /\ is_accepted(GenesisId)

\* C37: every signer of a certificate minted when a block is accepted is a
\* registered validator whose recorded vote on that block is Preference or
\* Commit; no voter whose vote on the block is Cancel is among the signers.
C37_SignersInFavour ==
    \A b \in DOMAIN finalized :
       \A i \in 1..Len(finalized[b].signers) :
          /\ finalized[b].signers[i] \in DOMAIN validators
          /\ \E j \in 1..Len(LedgerOf(states, b).votes) :
                /\ states[b].votes[j].voter = finalized[b].signers[i]
                /\ prefer(states[b].votes[j])
          /\ ~\E j \in 1..Len(LedgerOf(states, b).votes) :
                /\ states[b].votes[j].voter = finalized[b].signers[i]
                /\ states[b].votes[j].vote_type = "Cancel"

\* the engine e1 holds the Wave state and the status of block b that the
\* engine e holds
Untouched(e, e1, b) ==
    /\ (b \in DOMAIN e1.states) = (b \in DOMAIN e.states)
    /\ LedgerOf(e1.states, b) = LedgerOf(e.states, b)
    /\ (b \in DOMAIN e1.status) = (b \in DOMAIN e.status)
    /\ b \in DOMAIN e.status => e1.status[b] = e.status[b]

\* the WaveState of block b when only its recorded votes are cast, in the
\* order of its ledger, on a fresh Wave of the same configuration
AloneOf(cfg, b, votes) ==
    ReplayVotes(cfg,
                get_or_create_state(
                    [fpc |-> fpc, phase |-> 0, states |-> EmptyMap], b),
                votes, [i \in 1..Len(votes) |-> i], 1).states[b]

\* C38: with FPC disabled, a record_vote addressed to a block leaves the
\* vote list, counters, preference, confidence, decision and status of
\* every other block unchanged, and the Wave state of every block equals
\* the state reached when only the votes recorded for it are cast, in the
\* same relative order, on a Wave that holds no other block.
C38_BlockIndependence ==
    ~config.enable_fpc =>
       /\ \A vote \in AllVotes :
             \A b \in VoteIds \ { vote.block_id } :
                Untouched(Eng, record_vote(config, Eng, vote).e, b)
       /\ \A b \in DOMAIN states :
             states[b] = AloneOf(config, b, states[b].votes)

C38_Witness ==
    /\ ~config.enable_fpc
    /\ GenesisId \in DOMAIN states
    /\ BlockId \in DOMAIN states
    /\ states[GenesisId].decision = "Reject"
    /\ states[BlockId].decision = "Accept"
    /\ states[BlockId].votes[1].vote_type = "Cancel"
    /\ status[GenesisId] = "Rejected"
    /\ status[BlockId] = "Accepted"

(***************************************************************************)
(* WindowedFocus.  Instant::now() is a clock that the callers see advance  *)
(* between calls; the window and the clock are counted in the same unit.   *)
(* focus holds the WindowedFocus value wf and the clock now.               *)
(***************************************************************************)
MaxWindow == 1
MaxClock == 3

\* WindowedFocus::new
WindowedFocusNew(threshold, alpha, window) ==
    [inner |-> FocusNew(threshold, alpha), window |-> window,
     last_update |-> EmptyMap]

\* Focus::reset
focus_reset(f, id) ==
    [f EXCEPT !.states = [x \in (DOMAIN f.states) \ { id } |-> f.states[x]]]

\* WindowedFocus::update at the instant now; ret is the returned bool
windowed_update(wf, now, id, yes_votes, total_votes) ==
    LET expired == /\ id \in DOMAIN wf.last_update
                   /\ now - wf.last_update[id] > wf.window
        inner1 == IF expired THEN focus_reset(wf.inner, id) ELSE wf.inner
        r == focus_update(inner1, id, yes_votes, total_votes)
    IN  [wf |-> [wf EXCEPT !.inner = r.f,
                           !.last_update = Insert(@, id, now)],
         ret |-> r.ret]

\* WindowedFocus::is_decided and WindowedFocus::decision
windowed_is_decided(wf, id) == FocusStateOf(wf.inner, id).decided
windowed_decision(wf, id) == FocusStateOf(wf.inner, id).decision

InitWindowed ==
    /\ InitEngine(ConfigFlow)
    /\ twin = << >>
    /\ selector = << >>
    /\ luminance = << >>
    /\ sampler = << >>
    /\ \E threshold \in 1..MaxBeta, alpha \in FocusAlphas,
          window \in 0..MaxWindow :
          focus = [wf |-> WindowedFocusNew(threshold, alpha, window),
                   now |-> 0]

WindowedUnchanged ==
    UNCHANGED << config, fpc, started, blocks, status, height, phase,
                 states, validators, finalized, ret, success_count,
                 supplied, lock, threads, serial, seen, twin, selector,
                 luminance, sampler >>

\* time passes between two calls
Tick ==
    /\ focus.now < MaxClock
    /\ focus' = [focus EXCEPT !.now = @ + 1]
    /\ WindowedUnchanged

WindowedUpdate(id, yes_votes, total_votes) ==
    /\ focus' = [focus EXCEPT !.wf =
                    windowed_update(focus.wf, focus.now, id, yes_votes,
                                    total_votes).wf]
    /\ WindowedUnchanged

NextWindowed ==
    \/ Tick
    \/ \E id \in FocusIds, votes \in FocusVotes :
          WindowedUpdate(id, votes[1], votes[2])

SpecWindowed == InitWindowed /\ [][NextWindowed]_vars

\* C39: once is_decided(id) is true for an item of a WindowedFocus it stays
\* true and decision(id) stays the same under every later update, also an
\* update that arrives after a gap longer than the window.
C39_WindowedFinality ==
    [][\A id \in FocusIds :
          windowed_is_decided(focus.wf, id) =>
             /\ windowed_is_decided(focus.wf, id)'
             /\ windowed_decision(focus.wf, id)'
                   = windowed_decision(focus.wf, id)]_vars

(***************************************************************************)
(* The RwLocks of the engine.  The fields blocks, status, started and      *)
(* height are each behind an RwLock; a method takes guards and drops them  *)
(* in the order of its statements and scopes.  The engine is called        *)
(* through &mut self, so the guards held are those of the call in          *)
(* progress.  lock holds, per field, the read guards and write guards      *)
(* held; threads holds the call in progress, the lock operations it still  *)
(* has to make, and whether it is blocked in one.                          *)
(***************************************************************************)
LockNames == { "blocks", "status", "started", "height" }

Take(name, mode) == [act |-> "take", name |-> name, mode |-> mode]
Drop(name, mode) == [act |-> "drop", name |-> name, mode |-> mode]

\* a temporary guard, or a guard in a block of its own
Scoped(name, mode) == << Take(name, mode), Drop(name, mode) >>

\* variant of accept_block that takes the second guard on blocks for writing
AcceptLocks_SecondWrite(e, block_id) ==
    << Take("status", "write"), Take("blocks", "read") >>
       \o (IF block_id \in DOMAIN e.blocks THEN Scoped("height", "write")
           ELSE << >>)
       \o (IF block_id \in DOMAIN e.states THEN Scoped("blocks", "write")
           ELSE << >>)
       \o << Drop("blocks", "read"), Drop("status", "write") >>

\* the guards of accept_block: status for writing and blocks for reading
\* until the end, height for writing inside the first if, blocks for
\* reading a second time inside the second if
AcceptLocks(e, block_id) ==
    << Take("status", "write"), Take("blocks", "read") >>
       \o (IF block_id \in DOMAIN e.blocks THEN Scoped("height", "write")
           ELSE << >>)
       \o (IF block_id \in DOMAIN e.states THEN Scoped("blocks", "read")
           ELSE << >>)
       \o << Drop("blocks", "read"), Drop("status", "write") >>

\* the guards of record_vote
RecordVoteLocks(cfg, e, vote) ==
    LET r == wave_record_vote(cfg, WaveOf(e), vote)
        e1 == [e EXCEPT !.phase = r.w.phase, !.states = r.w.states]
        decision == wave_decision(r.w, vote.block_id)
    IN  Scoped("started", "read")
           \o (IF ~e.started THEN << >>
               ELSE Scoped("blocks", "read")
                       \o (IF vote.block_id \notin DOMAIN e.blocks \/ ~r.ret
                           THEN << >>
                           ELSE IF decision = "Accept"
                           THEN AcceptLocks(e1, vote.block_id)
                           ELSE IF decision = "Reject"
                           THEN Scoped("status", "write")
                           ELSE << >>))

\* the guards of start: started for writing until the return
StartLocks(e) ==
    << Take("started", "write") >>
       \o (IF e.started THEN << >>
           ELSE Scoped("blocks", "write") \o Scoped("status", "write"))
       \o << Drop("started", "write") >>

\* the guards of add
AddLocks(e) ==
    Scoped("started", "read")
       \o (IF ~e.started THEN << >>
           ELSE Scoped("blocks", "write") \o Scoped("status", "write"))

\* the lock operations of a call, in the order of its statements
LocksOf(cfg, e, op) ==
    IF op.kind = "start" THEN StartLocks(e)
    ELSE IF op.kind = "stop" THEN Scoped("started", "write")
    ELSE IF op.kind = "add" THEN AddLocks(e)
    ELSE IF op.kind = "record_vote"
    THEN RecordVoteLocks(cfg, e,
                         NewVote(op.block_id, op.vote_type, op.voter))
    ELSE Scoped("status", "read")

\* the engine call; stop is a call of its own
RunCall(cfg, e, op) ==
    IF op.kind = "stop" THEN stop(e) ELSE Run(cfg, e, op)

\* RwLock::read returns while no write guard is held, RwLock::write while
\* no guard is held
Grants(held, mode) ==
    IF mode = "read" THEN held.write = 0
    ELSE held.write = 0 /\ held.read = 0

NoGuards == [name \in LockNames |-> [read |-> 0, write |-> 0]]

InitLocks ==
    /\ config = ConfigPair
    /\ fpc = WaveFpc(ConfigPair)
    /\ started = FALSE
    /\ blocks = EmptyMap
    /\ status = EmptyMap
    /\ height = 0
    /\ phase = 0
    /\ states = EmptyMap
    /\ validators = EmptyMap
    /\ finalized = EmptyMap
    /\ ret = "None"
    /\ success_count = 0
    /\ supplied = << >>
    /\ lock = NoGuards
    /\ threads = [pc |-> "idle", op |-> << >>, todo |-> << >>]
    /\ serial = EngNew
    /\ seen = Snapshot(EngNew)
    /\ Alone

\* the calls made on the engine: start, also on a started engine, stop, add
\* of the block of the tests, the votes of the threads on it, and reads
LockCalls(e) ==
    { Call("start", 0, 0, "", 0), Call("stop", 0, 0, "", 0),
      Call("add", BlockId, MaxHeight, "", 0),
      Call("read", BlockId, 0, "", 0) }
       \cup { Call("record_vote", BlockId, 0, vote.vote_type, vote.voter) :
                 vote \in { x \in AllVotes : SendsInThread(e, x) } }

\* a method is called
BeginCall(op) ==
    /\ threads.pc = "idle"
    /\ threads' = [pc |-> "running", op |-> << op >>,
                   todo |-> LocksOf(config, Eng, op)]
    /\ UNCHANGED << config, fpc, components, started, blocks, status,
                    height, phase, states, validators, finalized, ret,
                    success_count, supplied, lock, serial, seen >>

\* the call makes its next lock operation: a guard is dropped, or taken
\* when the lock grants it; else the call blocks in read() or write()
LockStep ==
    /\ threads.pc = "running"
    /\ threads.todo # << >>
    /\ LET s == threads.todo[1]
       IN  IF s.act = "drop"
           THEN /\ lock' = [lock EXCEPT ![s.name][s.mode] = @ - 1]
                /\ threads' = [threads EXCEPT !.todo = Tail(@)]
           ELSE IF Grants(lock[s.name], s.mode)
           THEN /\ lock' = [lock EXCEPT ![s.name][s.mode] = @ + 1]
                /\ threads' = [threads EXCEPT !.todo = Tail(@)]
           ELSE /\ threads' = [threads EXCEPT !.pc = "blocked"]
                /\ UNCHANGED lock
    /\ UNCHANGED << config, fpc, components, started, blocks, status,
                    height, phase, states, validators, finalized, ret,
                    success_count, supplied, serial, seen >>

\* the call returns; its writes are those of the method
Return ==
    /\ threads.pc = "running"
    /\ threads.todo = << >>
    /\ LET r == RunCall(config, Eng, threads.op[1])
       IN  /\ SetEng(r.e)
           /\ ret' = r.ret
    /\ threads' = [pc |-> "idle", op |-> << >>, todo |-> << >>]
    /\ UNCHANGED << config, fpc, components, success_count, supplied, lock,
                    serial, seen >>

NextLocks ==
    \/ \E op \in LockCalls(Eng) : BeginCall(op)
    \/ LockStep
    \/ Return

SpecLocks == InitLocks /\ [][NextLocks]_vars

\* a call runs to its return without a pause of its own
SpecLocksFair == SpecLocks /\ WF_vars(LockStep \/ Return)

\* C40: no call of the engine asks for a lock in a mode that a guard the
\* call already holds excludes, so no call blocks on its own locks; a call
\* holds no guard after its return; every call returns.  On the accept path
\* record_vote holds the write guard of status and a read guard of blocks
\* when it takes blocks for reading a second time; start holds the write
\* guard of started when it takes blocks and status for writing.
C40_NoSelfBlock ==
    /\ [](/\ threads.pc # "blocked"
          /\ (threads.pc = "running" /\ threads.todo # << >>
                 /\ threads.todo[1].act = "take") =>
                Grants(lock[threads.todo[1].name], threads.todo[1].mode)
          /\ threads.pc = "idle" => lock = NoGuards)
    /\ ((threads.pc = "running") ~> (threads.pc = "idle"))

C40_Witness ==
    /\ threads.pc = "running"
    /\ threads.op[1].kind = "record_vote"
    /\ lock["status"].write = 1
    /\ lock["blocks"].read = 2

====
